---------------------------- MODULE Spec2Model ----------------------------
(***************************************************************************)
(* A model of the Rust Binder driver core (drivers/android): Process and   *)
(* its work queues, Node / NodeRef reference counting, NodeDeath, oneway   *)
(* ordering on a Node, Transaction submission, delivery, reply and cancel, *)
(* and the deferred release of a Process.                                  *)
(*                                                                         *)
(* Sequential code is written in state-passing style: an operator takes    *)
(* the whole program state S (a record of the variables below) and gives   *)
(* the state after the call, so that an action is the composition of the   *)
(* calls its handler makes.                                                *)
(***************************************************************************)
EXTENDS Integers, Sequences, FiniteSets, TLC

\* ------------------------------------------------------------- topology
\* Two processes in one context. "A" has two threads, "B" has one.
Procs == {"A", "B"}
Threads == {"a1", "a2", "b1"}
ProcOf(t) == IF t = "b1" THEN "B" ELSE "A"
ThreadsOf(p) == {t \in Threads : ProcOf(t) = p}
\* One Node (userland pointer) per process: node 1 is A's, node 2 is B's.
Nodes == {1, 2}
Owner(n) == IF n = 1 THEN "A" ELSE "B"
\* The effective uid of each process (Kuid::current_euid()).
Euid(p) == IF p = "A" THEN 1000 ELSE 1001

\* ------------------------------------------------------------- bounds
\* Number of Transaction objects (calls and oneways) ever created.
MaxTxn == 3
\* Cap on a user-visible reference count of a handle (BC_ACQUIRE/BC_INCREFS).
MaxCount == 2
\* Number of NodeDeath objects ever created.
MaxDeath == 2
\* Calls one Thread sends where the subject is the routing of calls.
MaxCalls == 1

TxnIds == 1..MaxTxn
DeathIds == 1..MaxDeath
Handles == 0..Cardinality(Nodes)
Cookies == {1, 2}
\* The names given to Contexts, and the number of Contexts made in a run.
ContextNames == {"binder", "hwbinder", "vndbinder"}
MaxContexts == 4

VARIABLES
    procs,      \* ProcessInner of each Process
    threads,    \* InnerThread of each Thread
    nodes,      \* NodeInner of each Node
    txns,       \* every Transaction object, with the Allocation that backs it
    refs,       \* ProcessNodeRefs of each Process: by_handle, by_global_id
    deaths,     \* every NodeDeath object
    mgr,        \* Manager of the Context: node (a NodeRef) and uid
    ev,         \* what the last step wrote to a reader's buffer
    imp,        \* the NodeRef each Thread holds between the two critical
                \* sections of insert_or_update_handle
    contexts    \* the registry CONTEXTS: the Contexts on its list, and how
                \* many Contexts have been made

vars == <<procs, threads, nodes, txns, refs, deaths, mgr, ev, imp, contexts>>

State ==
    [procs |-> procs, threads |-> threads, nodes |-> nodes, txns |-> txns,
     refs |-> refs, deaths |-> deaths, mgr |-> mgr, ev |-> ev, imp |-> imp,
     contexts |-> contexts]

SetState(S) ==
    /\ procs' = S.procs
    /\ threads' = S.threads
    /\ nodes' = S.nodes
    /\ txns' = S.txns
    /\ refs' = S.refs
    /\ deaths' = S.deaths
    /\ mgr' = S.mgr
    /\ ev' = S.ev
    /\ imp' = S.imp
    /\ contexts' = S.contexts

\* ------------------------------------------------------------- values
\* Work items (dyn DeliverToRead): a Transaction "T", the reply Transaction
\* to a call "R" (i is the call it answers), a Node "N", a NodeDeath "D",
\* an error code for a call "E" (c is the code).
Item(k, i, c) == [k |-> k, i |-> i, c |-> c]
TItem(i) == Item("T", i, "")
RItem(i) == Item("R", i, "")
NItem(n) == Item("N", n, "")
DItem(d) == Item("D", d, "")
EItem(i, c) == Item("E", i, c)
NoItem == Item("", 0, "")

NoEv == [t |-> "", cmds |-> <<>>, cont |-> TRUE]
Ev(t, cmds, cont) == [t |-> t, cmds |-> cmds, cont |-> cont]
Cmd(c, a) == [c |-> c, a |-> a]

\* The mark of a step in which an unwrap of None stopped the kernel: nothing
\* is modelled after it.
Panicked == Ev("panic", <<>>, FALSE)

\* CountState::new
CountState_new == [count |-> 0, has_count |-> FALSE]

\* Node::new (inner), with the model's record of whether the Node is in its
\* owner's node table, of the notifications userspace has been given, and of
\* whether set_used_for_transaction reported its failure for the Node. obj
\* names the Node object: the Thread whose get_node allocated it.
Node_new ==
    [strong |-> CountState_new, weak |-> CountState_new,
     death_list |-> <<>>, oneway_todo |-> <<>>,
     has_pending_oneway_todo |-> FALSE, active_inc_refs |-> 0,
     told_strong |-> FALSE, told_weak |-> FALSE,
     forced_strong |-> FALSE, forced_weak |-> FALSE, failure |-> FALSE,
     cookie |-> 0, obj |-> ""]

\* The bits of ProcessInner::defer_work.
PROC_DEFER_FLUSH == "FLUSH"
PROC_DEFER_RELEASE == "RELEASE"

\* ProcessInner::new, after the first mmap (mapping present), with the model's
\* record of the deferred work: pending is the Process's work item on the
\* workqueue, run the position of run_deferred and defer its local copy of
\* defer_work; sched is should_schedule of the last flush or release, closed
\* that release was called, flush_due that a flush was asked for and none
\* executed since, released the number of times deferred_release was started
\* by run_deferred.
ProcessInner_new ==
    [is_manager |-> FALSE, is_dead |-> FALSE, ready_threads |-> <<>>,
     work |-> <<>>, mapping |-> TRUE, nodes |-> {}, delivered_deaths |-> <<>>,
     rel |-> "open", defer_work |-> {}, pending |-> FALSE, run |-> "",
     defer |-> {}, sched |-> FALSE, closed |-> FALSE, flush_due |-> FALSE,
     released |-> 0]

\* No NodeRef / a NodeRef (NodeRef::new keeps node counts equal to the
\* requested user counts).
NoRef == [node |-> 0, s |-> 0, w |-> 0, sn |-> 0, wn |-> 0]
NodeRef_new(n, strong_count, weak_count) ==
    [node |-> n, s |-> strong_count, w |-> weak_count,
     sn |-> strong_count, wn |-> weak_count]

\* No buffer reserved by a command that is under way.
NoAlloc == [to |-> "", ref |-> NoRef, obj |-> 0]

\* No call of get_node under way or returned: at is "alloc" between the two
\* critical sections of get_node and "done" once it has returned; missed
\* records that the first lookup found no Node; res, ref and got are the
\* result, the NodeRef returned and the Node object it refers to.
NoGet ==
    [at |-> "", ptr |-> 0, cookie |-> 0, strong |-> FALSE, missed |-> FALSE,
     res |-> "", ref |-> NoRef, got |-> ""]

\* InnerThread of a new Thread.
InnerThread_new ==
    [work |-> <<>>, ret |-> NoItem, cur |-> 0, is_dead |-> FALSE,
     looper |-> FALSE, alloc |-> NoAlloc, getn |-> NoGet]

\* A slot of the Transaction table that holds no Transaction yet.
NoTxn ==
    [kind |-> "none", node |-> 0, next |-> 0, from |-> "", to |-> "",
     files |-> FALSE, free_alloc |-> FALSE, buf |-> FALSE, st |-> "none",
     err |-> "", depth0 |-> 0, rdepth |-> -1, rfiles |-> FALSE,
     rbuf |-> FALSE, rst |-> "none", nreply |-> 0]

\* NodeRefInfo; death = 0 is None. A handle with no entry holds NoInfo.
NoInfo == [ref |-> NoRef, death |-> 0]
NodeRefInfo_new(r) == [ref |-> r, death |-> 0]

\* ProcessNodeRefs::new; by_global_id[n] = -1 when the Node has no handle.
ProcessNodeRefs_new ==
    [by_handle |-> [h \in Handles |-> NoInfo],
     by_global_id |-> [n \in Nodes |-> -1]]

\* The registry after the Context of the two Processes, "binder", was made:
\* the Contexts on the list, each with its identity and its name, and the
\* number of Contexts made so far.
ContextList_new == [list |-> <<[id |-> 1, name |-> "binder"]>>, made |-> 1]

NoDeath ==
    [node |-> 0, process |-> "", cookie |-> 0, dead |-> FALSE,
     cleared |-> FALSE, notification_done |-> FALSE, aborted |-> FALSE,
     reader |-> "", clear_done |-> FALSE, reading |-> "", done |-> FALSE,
     begun |-> FALSE]

Init ==
    /\ procs = [p \in Procs |-> ProcessInner_new]
    /\ threads = [t \in Threads |-> InnerThread_new]
    /\ nodes = [n \in Nodes |-> Node_new]
    /\ txns = [i \in TxnIds |-> NoTxn]
    /\ refs = [p \in Procs |-> ProcessNodeRefs_new]
    /\ deaths = [d \in DeathIds |-> NoDeath]
    /\ mgr = [node |-> NoRef, uid |-> 0]
    /\ ev = NoEv
    /\ imp = [t \in Threads |-> NoRef]
    /\ contexts = ContextList_new

\* ------------------------------------------------------------- sequences
\* F applied to the value x of a call: the value is computed once and named.
Bind(x, F(_)) == F(x)

InSeq(x, s) == \E k \in 1..Len(s) : s[k] = x
RemoveFrom(s, x) == SelectSeq(s, LAMBDA y : y # x)


\* The work lists are intrusive: a work item has one set of links and is on
\* at most one list (a Process's, a Thread's, or a Node's oneway queue).
Queued(S, w) ==
    \/ \E p \in Procs : InSeq(w, S.procs[p].work)
    \/ \E t \in Threads : InSeq(w, S.threads[t].work)
    \/ \E n \in Nodes : InSeq(w, S.nodes[n].oneway_todo)

\* Stack depth of a Thread: its current transaction followed via stack_next.
RECURSIVE ChainLen(_, _)
ChainLen(S, i) == IF i = 0 THEN 0 ELSE 1 + ChainLen(S, S.txns[i].next)
Depth(S, t) == ChainLen(S, S.threads[t].cur)

\* ------------------------------------------------------------- Thread queue
\* Thread::push_work: Err(dead) for a released Thread; Ok(false) when the item
\* is already on a list (the push changes nothing); Ok(true) otherwise.
Thread_push_work(S, t, w) ==
    IF S.threads[t].is_dead THEN [s |-> S, res |-> "dead"]
    ELSE IF Queued(S, w) THEN [s |-> S, res |-> "no"]
    ELSE [s |-> [S EXCEPT !.threads[t].work = Append(@, w)], res |-> "ok"]

\* Thread::push_work_deferred: no check of is_dead, no wake-up.
Thread_push_work_deferred(S, t, w) ==
    IF Queued(S, w) THEN S ELSE [S EXCEPT !.threads[t].work = Append(@, w)]

\* A faulty push_work: the item goes to the Process queue whether a Thread is
\* ready or not.
ProcessInner_push_work_queue(S, p, w) ==
    IF S.procs[p].is_dead THEN [s |-> S, ok |-> FALSE]
    ELSE [s |-> IF Queued(S, w) THEN S
                ELSE [S EXCEPT !.procs[p].work = Append(@, w)],
          ok |-> TRUE]

\* A faulty push_work: is_dead is not looked at.
ProcessInner_push_work_undead(S, p, w) ==
    LET P == S.procs[p]
        t == Head(P.ready_threads)
        S1 == [S EXCEPT !.procs[p].ready_threads = Tail(@)]
    IN  IF P.ready_threads # <<>> THEN
            Bind(Thread_push_work(S1, t, w), LAMBDA r :
                IF r.res = "ok" THEN [s |-> r.s, ok |-> TRUE]
                ELSE IF r.res = "no"
                THEN [s |-> [S1 EXCEPT !.procs[p].ready_threads = Append(@, t)],
                      ok |-> TRUE]
                ELSE [s |-> S1, ok |-> FALSE])
        ELSE [s |-> IF Queued(S, w) THEN S
                    ELSE [S EXCEPT !.procs[p].work = Append(@, w)],
              ok |-> TRUE]

\* ------------------------------------------------------------- Process queue
\* ProcessInner::push_work (and push_new_transaction, which differs only in
\* calling Thread::push_new_transaction): a ready Thread if there is one, an
\* error if the Process is dead, the Process queue otherwise.
ProcessInner_push_work(S, p, w) ==
    LET P == S.procs[p]
        t == Head(P.ready_threads)
        S1 == [S EXCEPT !.procs[p].ready_threads = Tail(@)]
    IN  IF P.ready_threads # <<>> THEN
            Bind(Thread_push_work(S1, t, w), LAMBDA r :
                IF r.res = "ok" THEN [s |-> r.s, ok |-> TRUE]
                ELSE IF r.res = "no"
                THEN [s |-> [S1 EXCEPT !.procs[p].ready_threads = Append(@, t)],
                      ok |-> TRUE]
                ELSE [s |-> S1, ok |-> FALSE])
        ELSE IF P.is_dead THEN [s |-> S, ok |-> FALSE]
        ELSE [s |-> IF Queued(S, w) THEN S
                    ELSE [S EXCEPT !.procs[p].work = Append(@, w)],
              ok |-> TRUE]

ProcessInner_push_new_transaction(S, p, w) == ProcessInner_push_work(S, p, w)

\* A faulty update_refcount_locked: an increment asks for work only when it
\* starts from a count of zero.
update_refcount_locked_from_zero(S, n, inc, strong, count) ==
    LET st == IF strong THEN S.nodes[n].strong ELSE S.nodes[n].weak
        under == ~inc /\ st.count < count
        new == IF inc THEN [st EXCEPT !.count = @ + count]
               ELSE IF under THEN st
               ELSE [st EXCEPT !.count = @ - count]
        push == IF inc THEN st.count = 0 /\ ~st.has_count
                ELSE IF under THEN FALSE
                ELSE new.count = 0 /\ st.has_count
    IN  [s |-> IF strong THEN [S EXCEPT !.nodes[n].strong = new]
               ELSE [S EXCEPT !.nodes[n].weak = new],
         push |-> push]

\* ------------------------------------------------------------- Node counts
\* Node::update_refcount_locked: the new CountState and whether to push work.
update_refcount_locked(S, n, inc, strong, count) ==
    LET st == IF strong THEN S.nodes[n].strong ELSE S.nodes[n].weak
        under == ~inc /\ st.count < count
        new == IF inc THEN [st EXCEPT !.count = @ + count]
               ELSE IF under THEN st
               ELSE [st EXCEPT !.count = @ - count]
        push == IF inc THEN ~st.has_count
                ELSE IF under THEN FALSE
                ELSE new.count = 0 /\ st.has_count
    IN  [s |-> IF strong THEN [S EXCEPT !.nodes[n].strong = new]
               ELSE [S EXCEPT !.nodes[n].weak = new],
         push |-> push]

\* ProcessInner::update_node_refcount on the Node's owner; othread = "" is None.
update_node_refcount(S, n, inc, strong, count, othread) ==
    Bind(update_refcount_locked(S, n, inc, strong, count), LAMBDA r :
        IF ~r.push THEN r.s
        ELSE IF othread # "" THEN Thread_push_work_deferred(r.s, othread, NItem(n))
        ELSE ProcessInner_push_work(r.s, Owner(n), NItem(n)).s)

\* Node::update_refcount
Node_update_refcount(S, n, inc, count, strong) ==
    update_node_refcount(S, n, inc, strong, count, "")

\* ProcessInner::new_node_ref: the state and the NodeRef made.
new_node_ref(S, n, strong, thread) ==
    LET strong_count == IF strong THEN 1 ELSE 0 IN
    [s |-> update_node_refcount(S, n, TRUE, strong, 1, thread),
     ref |-> NodeRef_new(n, strong_count, 1 - strong_count)]

\* <NodeRef as Drop>::drop
NodeRef_drop(S, r) ==
    Bind(IF r.sn > 0 THEN Node_update_refcount(S, r.node, FALSE, r.sn, TRUE)
         ELSE S,
         LAMBDA S1 :
             IF r.wn > 0 THEN Node_update_refcount(S1, r.node, FALSE, r.wn, FALSE)
             ELSE S1)

\* NodeRef::clone: fails for a strong clone of a NodeRef with no strong count.
NodeRef_clone(S, r, strong) ==
    IF strong /\ r.s = 0 THEN [s |-> S, ok |-> FALSE, ref |-> NoRef]
    ELSE Bind(new_node_ref(S, r.node, strong, ""), LAMBDA m :
             [s |-> m.s, ok |-> TRUE, ref |-> m.ref])


\* ------------------------------------------------------------- Transaction
IsCall(S, i) == S.txns[i].kind = "call"
IsOneway(S, i) == S.txns[i].kind = "oneway"

\* A faulty clone_next: the frame below is forgotten.
clone_next_none(S, i) == 0

\* Transaction::clone_next
clone_next(S, i) == S.txns[i].next

\* Transaction::is_stacked_on
is_stacked_on(S, i, onext) == S.txns[i].next = onext

\* Transaction::find_from: the first frame below i that thread th sent.
RECURSIVE find_from_walk(_, _, _)
find_from_walk(S, it, th) ==
    IF it = 0 THEN 0
    ELSE IF S.txns[it].from = th THEN it
    ELSE find_from_walk(S, S.txns[it].next, th)
find_from(S, i, th) == find_from_walk(S, S.txns[i].next, th)

\* A faulty find_target_thread: the stack is not searched.
find_target_thread_none(S, i) == ""

\* Transaction::find_target_thread: the sender of the first frame below i
\* that was sent from the recipient Process; "" is None.
RECURSIVE find_target_walk(_, _, _)
find_target_walk(S, it, to) ==
    IF it = 0 THEN ""
    ELSE IF ProcOf(S.txns[it].from) = to THEN S.txns[it].from
    ELSE find_target_walk(S, S.txns[it].next, to)
find_target_thread(S, i) == find_target_walk(S, S.txns[i].next, S.txns[i].to)

\* InnerThread::pop_transaction_replied
pop_transaction_replied(S, t, i) ==
    IF S.threads[t].cur = i
    THEN [s |-> [S EXCEPT !.threads[t].cur = clone_next(S, i)], ok |-> TRUE]
    ELSE [s |-> S, ok |-> FALSE]

\* What becomes of a reply that is not queued: an error code is nothing; a
\* reply Transaction is dropped, and its drop frees the buffer it holds.
Reply_dropped(S, w) ==
    IF w.k = "R"
    THEN [S EXCEPT !.txns[w.i].rbuf = FALSE, !.txns[w.i].rst = "lost"]
    ELSE S

\* A reply put on the caller's queue; rdepth records the depth of the
\* caller's stack at that point.
Reply_queued(S, w) ==
    LET d == Depth(S, S.txns[w.i].from) IN
    IF w.k = "R"
    THEN [S EXCEPT !.txns[w.i].rst = "queued", !.txns[w.i].rdepth = d]
    ELSE [S EXCEPT !.txns[w.i].err = w.c, !.txns[w.i].rdepth = d]

\* Thread::deliver_single_reply: whether the Thread is dead, in which case
\* the caller unwinds the stack.
deliver_single_reply(S, t, w, i) ==
    Bind(pop_transaction_replied(S, t, i), LAMBDA r :
        IF ~r.ok THEN [s |-> Reply_dropped(S, w), dead |-> FALSE]
        ELSE IF S.threads[t].is_dead
        THEN [s |-> Reply_dropped(r.s, w), dead |-> TRUE]
        ELSE [s |-> Reply_queued([r.s EXCEPT !.threads[t].work = Append(@, w)],
                                 w),
              dead |-> FALSE])

\* Thread::unwind_transaction_stack: a dead Thread's frames are completed
\* with BR_DEAD_REPLY, towards the callers.
RECURSIVE unwind_transaction_stack(_, _)
unwind_transaction_stack(S, th) ==
    LET c == S.threads[th].cur IN
    IF c = 0 \/ S.txns[c].from = th THEN S
    ELSE Bind(deliver_single_reply(
                  [S EXCEPT !.threads[th].cur = find_from(S, c, th)],
                  S.txns[c].from, EItem(c, "BR_DEAD_REPLY"), c),
              LAMBDA r :
                  IF r.dead THEN unwind_transaction_stack(r.s, S.txns[c].from)
                  ELSE r.s)

\* Thread::deliver_reply
Thread_deliver_reply(S, t, w, i) ==
    Bind(deliver_single_reply(S, t, w, i), LAMBDA r :
        IF r.dead THEN unwind_transaction_stack(r.s, t) ELSE r.s)

RECURSIVE Node_pending_oneway_finished(_, _)
RECURSIVE Transaction_cancel(_, _)
RECURSIVE Transaction_drop(_, _)
RECURSIVE Allocation_drop(_, _)
RECURSIVE cancel_all(_, _)

\* <Allocation as Drop>::drop of the buffer of Transaction i: the oneway
\* Node is told first, then the target NodeRef kept in the info is dropped.
Allocation_drop(S, i) ==
    IF ~S.txns[i].buf THEN S
    ELSE NodeRef_drop(
             IF IsOneway(S, i)
             THEN Node_pending_oneway_finished(
                      [S EXCEPT !.txns[i].buf = FALSE], S.txns[i].node)
             ELSE [S EXCEPT !.txns[i].buf = FALSE],
             NodeRef_new(S.txns[i].node, 1, 0))

\* <Transaction as Drop>::drop: buffer_get finds the buffer only while the
\* recipient's mapping is there.
Transaction_drop(S, i) ==
    IF S.txns[i].free_alloc /\ S.procs[S.txns[i].to].mapping
    THEN Allocation_drop(S, i)
    ELSE S

\* A faulty cancel: no reply is sent.
Transaction_cancel_silent(S, i) ==
    Transaction_drop([S EXCEPT !.txns[i].st = "cancelled"], i)

\* <Transaction as DeliverToRead>::cancel, and the drop of the reference the
\* queue held.
Transaction_cancel(S, i) ==
    Bind(IF S.txns[i].node # 0 /\ ~IsOneway(S, i)
         THEN Thread_deliver_reply(S, S.txns[i].from,
                                   EItem(i, "BR_DEAD_REPLY"), i)
         ELSE S,
         LAMBDA S1 : Transaction_drop([S1 EXCEPT !.txns[i].st = "cancelled"], i))

\* DeliverToRead::cancel of any work item: only a Transaction does something.
Work_cancel(S, w) ==
    IF w.k = "T" THEN Transaction_cancel(S, w.i)
    ELSE IF w.k = "R" THEN Reply_dropped(S, w)
    ELSE S

cancel_all(S, list) ==
    IF list = <<>> THEN S
    ELSE cancel_all(Work_cancel(S, Head(list)), Tail(list))

\* Node::cleanup_oneway, also the tail of pending_oneway_finished: the queue
\* is taken, the flag cleared, every item cancelled.
Node_cleanup_oneway(S, n) ==
    cancel_all([S EXCEPT !.nodes[n].oneway_todo = <<>>,
                         !.nodes[n].has_pending_oneway_todo = FALSE],
               S.nodes[n].oneway_todo)

\* A faulty submit_oneway: the pending flag is not consulted.
Node_submit_oneway_unordered(S, n, i) ==
    ProcessInner_push_work(
        [S EXCEPT !.nodes[n].has_pending_oneway_todo = TRUE], Owner(n), TItem(i))

\* Node::submit_oneway
Node_submit_oneway(S, n, i) ==
    IF S.nodes[n].has_pending_oneway_todo
    THEN [s |-> [S EXCEPT !.nodes[n].oneway_todo = Append(@, TItem(i))],
          ok |-> TRUE]
    ELSE ProcessInner_push_work(
             [S EXCEPT !.nodes[n].has_pending_oneway_todo = TRUE],
             Owner(n), TItem(i))

\* A faulty pending_oneway_finished: the newest queued transaction is taken.
Node_pending_oneway_finished_newest(S, n) ==
    LET q == S.nodes[n].oneway_todo IN
    IF ~S.procs[Owner(n)].is_dead THEN
        IF q = <<>>
        THEN [S EXCEPT !.nodes[n].has_pending_oneway_todo = FALSE]
        ELSE Bind(ProcessInner_push_work(
                      [S EXCEPT !.nodes[n].oneway_todo = SubSeq(q, 1, Len(q) - 1)],
                      Owner(n), q[Len(q)]),
                  LAMBDA r :
                      IF r.ok
                      THEN [r.s EXCEPT !.nodes[n].has_pending_oneway_todo = TRUE]
                      ELSE Transaction_drop(Node_cleanup_oneway(r.s, n),
                                            q[Len(q)].i))
    ELSE Node_cleanup_oneway(S, n)

\* A faulty pending_oneway_finished: the pending flag is cleared when the next
\* transaction is pushed.
Node_pending_oneway_finished_clears(S, n) ==
    IF ~S.procs[Owner(n)].is_dead THEN
        IF S.nodes[n].oneway_todo = <<>>
        THEN [S EXCEPT !.nodes[n].has_pending_oneway_todo = FALSE]
        ELSE Bind(ProcessInner_push_work(
                      [S EXCEPT !.nodes[n].oneway_todo = Tail(@)], Owner(n),
                      Head(S.nodes[n].oneway_todo)),
                  LAMBDA r :
                      IF r.ok
                      THEN [r.s EXCEPT !.nodes[n].has_pending_oneway_todo = FALSE]
                      ELSE Transaction_drop(Node_cleanup_oneway(r.s, n),
                                            Head(S.nodes[n].oneway_todo).i))
    ELSE Node_cleanup_oneway(S, n)

\* Node::pending_oneway_finished
Node_pending_oneway_finished(S, n) ==
    IF ~S.procs[Owner(n)].is_dead THEN
        IF S.nodes[n].oneway_todo = <<>>
        THEN [S EXCEPT !.nodes[n].has_pending_oneway_todo = FALSE]
        ELSE Bind(ProcessInner_push_work(
                      [S EXCEPT !.nodes[n].oneway_todo = Tail(@)], Owner(n),
                      Head(S.nodes[n].oneway_todo)),
                  LAMBDA r :
                      IF r.ok
                      THEN [r.s EXCEPT !.nodes[n].has_pending_oneway_todo = TRUE]
                      ELSE Transaction_drop(Node_cleanup_oneway(r.s, n),
                                            Head(S.nodes[n].oneway_todo).i))
    ELSE Node_cleanup_oneway(S, n)


\* ------------------------------------------------------------- Node table
\* Whether a Node takes file descriptors (FLAT_BINDER_FLAG_ACCEPTS_FDS).
AcceptsFds(n) == n = 1

\* Process::get_node: the Node of the caller's pointer, inserted in the node
\* table if it is not there, and a new NodeRef to it.
get_node(S, p, n, strong, thread) ==
    new_node_ref([S EXCEPT !.procs[p].nodes = @ \cup {n}], n, strong, thread)

\* ProcessInner::get_existing_node: "none" if the node table has no Node for
\* the pointer, "some" if it has one with the cookie, "EINVAL" if it has one
\* with another cookie.
get_existing_node(S, p, ptr, cookie) ==
    IF ptr \notin S.procs[p].nodes THEN "none"
    ELSE IF S.nodes[ptr].cookie = cookie THEN "some"
    ELSE "EINVAL"

\* ProcessInner::get_existing_node_ref: a new NodeRef to the Node found.
get_existing_node_ref(S, p, ptr, cookie, strong, thread) ==
    LET e == get_existing_node(S, p, ptr, cookie) IN
    IF e = "some"
    THEN Bind(new_node_ref(S, ptr, strong, thread), LAMBDA m :
             [s |-> m.s, res |-> e, ref |-> m.ref])
    ELSE [s |-> S, res |-> e, ref |-> NoRef]

\* What get_node of Thread t returned: the NodeRef r to the Node object obj,
\* or the error.
get_node_return(S, t, res, r, obj) ==
    [S EXCEPT !.threads[t].getn.at = "done",
              !.threads[t].getn.res = res,
              !.threads[t].getn.ref = r,
              !.threads[t].getn.got = obj]

\* Process::get_node by Thread t up to the allocation of the Node: the first
\* critical section looks for an existing Node.
get_node_lookup(S, t, ptr, cookie, strong) ==
    LET p == ProcOf(t)
        S0 == [S EXCEPT !.threads[t].getn =
                  [NoGet EXCEPT !.ptr = ptr, !.cookie = cookie,
                                !.strong = strong]]
    IN  Bind(get_existing_node_ref(S0, p, ptr, cookie, strong, t), LAMBDA r :
        IF r.res = "some"
        THEN get_node_return(r.s, t, "ok", r.ref, S.nodes[ptr].obj)
        ELSE IF r.res = "EINVAL"
        THEN get_node_return(r.s, t, "EINVAL", NoRef, "")
        ELSE [r.s EXCEPT !.threads[t].getn.at = "alloc",
                         !.threads[t].getn.missed = TRUE])

\* A faulty second critical section of get_node: the Node allocated is
\* inserted without a second lookup, in the place of the Node that another
\* Thread inserted in between.
get_node_insert_blind(S, t) ==
    LET p == ProcOf(t)
        g == S.threads[t].getn
        S1 == [S EXCEPT !.procs[p].nodes = @ \cup {g.ptr},
                        !.nodes[g.ptr] = [Node_new EXCEPT !.cookie = g.cookie,
                                                          !.obj = t]]
    IN  Bind(new_node_ref(S1, g.ptr, g.strong, t), LAMBDA m :
            get_node_return(m.s, t, "ok", m.ref, t))

\* The rest of Process::get_node by Thread t, with the Node it allocated: the
\* second critical section looks again, and inserts the Node if there is
\* still none for the pointer.
get_node_insert(S, t) ==
    LET p == ProcOf(t)
        g == S.threads[t].getn
    IN  Bind(get_existing_node_ref(S, p, g.ptr, g.cookie, g.strong, t),
             LAMBDA r :
        IF r.res = "some"
        THEN get_node_return(r.s, t, "ok", r.ref, S.nodes[g.ptr].obj)
        ELSE IF r.res = "EINVAL"
        THEN get_node_return(r.s, t, "EINVAL", NoRef, "")
        ELSE Bind(new_node_ref(
                      [S EXCEPT !.procs[p].nodes = @ \cup {g.ptr},
                                !.nodes[g.ptr] =
                                    [Node_new EXCEPT !.cookie = g.cookie,
                                                     !.obj = t]],
                      g.ptr, g.strong, t),
                  LAMBDA m : get_node_return(m.s, t, "ok", m.ref, t)))

\* A faulty force_has_count: the counts of the manager's Node are not marked
\* as known to the owner.
force_has_count_none(S, n) == S

\* Node::force_has_count
force_has_count(S, n) ==
    [S EXCEPT !.nodes[n].strong.has_count = TRUE,
              !.nodes[n].weak.has_count = TRUE,
              !.nodes[n].forced_strong = TRUE,
              !.nodes[n].forced_weak = TRUE]

\* A faulty set_manager_node: the recorded euid is not compared.
set_manager_node_any_uid(S, r, caller_uid) ==
    IF S.mgr.node # NoRef THEN [s |-> S, res |-> "EBUSY"]
    ELSE [s |-> [S EXCEPT !.mgr = [node |-> r, uid |-> caller_uid]], res |-> "ok"]

\* ------------------------------------------------------------- Context
\* Context::set_manager_node: "EBUSY", "EPERM" or "ok".
set_manager_node(S, r, caller_uid) ==
    IF S.mgr.node # NoRef THEN [s |-> S, res |-> "EBUSY"]
    ELSE IF S.mgr.uid # 0 /\ S.mgr.uid # caller_uid THEN [s |-> S, res |-> "EPERM"]
    ELSE [s |-> [S EXCEPT !.mgr = [node |-> r, uid |-> caller_uid]], res |-> "ok"]

\* Context::unset_manager_node
unset_manager_node(S) ==
    NodeRef_drop([S EXCEPT !.mgr.node = NoRef], S.mgr.node)

\* ------------------------------------------------------------- registry
\* Context::new: the new Context is pushed to the back of the list of
\* CONTEXTS; the names on the list are not looked at.
Context_new(S, name) ==
    [S EXCEPT !.contexts =
        [list |-> Append(@.list, [id |-> @.made + 1, name |-> name]),
         made |-> @.made + 1]]

\* Context::deregister: the Context is removed from the list if it is on it.
Context_deregister(S, c) ==
    [S EXCEPT !.contexts.list = SelectSeq(@, LAMBDA x : x.id # c)]

\* Context::get_manager_node
get_manager_node(S, strong) ==
    IF S.mgr.node = NoRef THEN [s |-> S, ok |-> FALSE, ref |-> NoRef]
    ELSE NodeRef_clone(S, S.mgr.node, strong)

\* Process::get_node_from_handle
get_node_from_handle(S, p, h, strong) ==
    IF S.refs[p].by_handle[h] = NoInfo THEN [s |-> S, ok |-> FALSE, ref |-> NoRef]
    ELSE NodeRef_clone(S, S.refs[p].by_handle[h].ref, strong)

\* Node::set_used_for_transaction: the failure is reported if
\* strong.has_count is false.
set_used_for_transaction(S, n) ==
    IF S.nodes[n].strong.has_count THEN S
    ELSE [S EXCEPT !.nodes[n].failure = TRUE]

\* Process::get_transaction_node
get_transaction_node(S, p, h) ==
    Bind(IF h = 0 THEN get_manager_node(S, TRUE)
         ELSE get_node_from_handle(S, p, h, TRUE),
         LAMBDA r :
             IF r.ok
             THEN [r EXCEPT !.s = set_used_for_transaction(r.s, r.ref.node)]
             ELSE r)

\* ------------------------------------------------------------- Node work
\* A faulty do_work: decrements are written whatever active_inc_refs is.
Node_do_work_eager(S, n, t) ==
    LET N == S.nodes[n]
        strong == N.strong.count > 0
        has_strong == N.strong.has_count
        weak == strong \/ N.weak.count > 0
        has_weak == N.weak.has_count
        incw == weak /\ ~has_weak
        incs == strong /\ ~has_strong
        air == N.active_inc_refs + (IF incw THEN 1 ELSE 0) + (IF incs THEN 1 ELSE 0)
        should_drop_weak == ~weak /\ has_weak
        should_drop_strong == ~strong /\ has_strong
        cmds == (IF incw THEN <<Cmd("BR_INCREFS", n)>> ELSE <<>>)
                \o (IF incs THEN <<Cmd("BR_ACQUIRE", n)>> ELSE <<>>)
                \o (IF should_drop_strong THEN <<Cmd("BR_RELEASE", n)>> ELSE <<>>)
                \o (IF should_drop_weak THEN <<Cmd("BR_DECREFS", n)>> ELSE <<>>)
    IN  [S EXCEPT
            !.nodes[n].weak.has_count = (incw \/ has_weak) /\ ~should_drop_weak,
            !.nodes[n].strong.has_count = (incs \/ has_strong) /\ ~should_drop_strong,
            !.nodes[n].active_inc_refs = air,
            !.nodes[n].told_weak = (incw \/ @) /\ ~should_drop_weak,
            !.nodes[n].told_strong = (incs \/ @) /\ ~should_drop_strong,
            !.nodes[n].forced_weak = @ /\ ~should_drop_weak,
            !.nodes[n].forced_strong = @ /\ ~should_drop_strong,
            !.procs[Owner(n)].nodes = IF ~weak THEN @ \ {n} ELSE @,
            !.ev = Ev(t, cmds, TRUE)]

\* A faulty do_work: BR_INCREFS / BR_ACQUIRE are written but has_count is not
\* set.
Node_do_work_forgetful(S, n, t) ==
    LET N == S.nodes[n]
        strong == N.strong.count > 0
        has_strong == N.strong.has_count
        weak == strong \/ N.weak.count > 0
        has_weak == N.weak.has_count
        incw == weak /\ ~has_weak
        incs == strong /\ ~has_strong
        air == N.active_inc_refs + (IF incw THEN 1 ELSE 0) + (IF incs THEN 1 ELSE 0)
        no_active_inc_refs == air = 0
        should_drop_weak == no_active_inc_refs /\ (~weak /\ has_weak)
        should_drop_strong == no_active_inc_refs /\ (~strong /\ has_strong)
        cmds == (IF incw THEN <<Cmd("BR_INCREFS", n)>> ELSE <<>>)
                \o (IF incs THEN <<Cmd("BR_ACQUIRE", n)>> ELSE <<>>)
                \o (IF should_drop_strong THEN <<Cmd("BR_RELEASE", n)>> ELSE <<>>)
                \o (IF should_drop_weak THEN <<Cmd("BR_DECREFS", n)>> ELSE <<>>)
    IN  [S EXCEPT
            !.nodes[n].weak.has_count = has_weak /\ ~should_drop_weak,
            !.nodes[n].strong.has_count = has_strong /\ ~should_drop_strong,
            !.nodes[n].active_inc_refs = IF air > 2 THEN 2 ELSE air,
            !.nodes[n].told_weak = (incw \/ @) /\ ~should_drop_weak,
            !.nodes[n].told_strong = (incs \/ @) /\ ~should_drop_strong,
            !.nodes[n].forced_weak = @ /\ ~should_drop_weak,
            !.nodes[n].forced_strong = @ /\ ~should_drop_strong,
            !.procs[Owner(n)].nodes =
                IF no_active_inc_refs /\ ~weak THEN @ \ {n} ELSE @,
            !.ev = Ev(t, cmds, TRUE)]

\* A faulty do_work: BR_DECREFS is written before BR_RELEASE.
Node_do_work_swapped(S, n, t) ==
    LET N == S.nodes[n]
        strong == N.strong.count > 0
        has_strong == N.strong.has_count
        weak == strong \/ N.weak.count > 0
        has_weak == N.weak.has_count
        incw == weak /\ ~has_weak
        incs == strong /\ ~has_strong
        air == N.active_inc_refs + (IF incw THEN 1 ELSE 0) + (IF incs THEN 1 ELSE 0)
        no_active_inc_refs == air = 0
        should_drop_weak == no_active_inc_refs /\ (~weak /\ has_weak)
        should_drop_strong == no_active_inc_refs /\ (~strong /\ has_strong)
        cmds == (IF incw THEN <<Cmd("BR_INCREFS", n)>> ELSE <<>>)
                \o (IF incs THEN <<Cmd("BR_ACQUIRE", n)>> ELSE <<>>)
                \o (IF should_drop_weak THEN <<Cmd("BR_DECREFS", n)>> ELSE <<>>)
                \o (IF should_drop_strong THEN <<Cmd("BR_RELEASE", n)>> ELSE <<>>)
    IN  [S EXCEPT
            !.nodes[n].weak.has_count = (incw \/ has_weak) /\ ~should_drop_weak,
            !.nodes[n].strong.has_count = (incs \/ has_strong) /\ ~should_drop_strong,
            !.nodes[n].active_inc_refs = air,
            !.nodes[n].told_weak = (incw \/ @) /\ ~should_drop_weak,
            !.nodes[n].told_strong = (incs \/ @) /\ ~should_drop_strong,
            !.nodes[n].forced_weak = @ /\ ~should_drop_weak,
            !.nodes[n].forced_strong = @ /\ ~should_drop_strong,
            !.procs[Owner(n)].nodes =
                IF no_active_inc_refs /\ ~weak THEN @ \ {n} ELSE @,
            !.ev = Ev(t, cmds, TRUE)]

\* <Node as DeliverToRead>::do_work by Thread t. told_* record what has been
\* written to userspace: set by BR_INCREFS / BR_ACQUIRE, reset by BR_DECREFS /
\* BR_RELEASE.
Node_do_work(S, n, t) ==
    LET N == S.nodes[n]
        strong == N.strong.count > 0
        has_strong == N.strong.has_count
        weak == strong \/ N.weak.count > 0
        has_weak == N.weak.has_count
        incw == weak /\ ~has_weak
        incs == strong /\ ~has_strong
        air == N.active_inc_refs + (IF incw THEN 1 ELSE 0) + (IF incs THEN 1 ELSE 0)
        no_active_inc_refs == air = 0
        should_drop_weak == no_active_inc_refs /\ (~weak /\ has_weak)
        should_drop_strong == no_active_inc_refs /\ (~strong /\ has_strong)
        cmds == (IF incw THEN <<Cmd("BR_INCREFS", n)>> ELSE <<>>)
                \o (IF incs THEN <<Cmd("BR_ACQUIRE", n)>> ELSE <<>>)
                \o (IF should_drop_strong THEN <<Cmd("BR_RELEASE", n)>> ELSE <<>>)
                \o (IF should_drop_weak THEN <<Cmd("BR_DECREFS", n)>> ELSE <<>>)
    IN  [S EXCEPT
            !.nodes[n].weak.has_count = (incw \/ has_weak) /\ ~should_drop_weak,
            !.nodes[n].strong.has_count = (incs \/ has_strong) /\ ~should_drop_strong,
            !.nodes[n].active_inc_refs = air,
            !.nodes[n].told_weak = (incw \/ @) /\ ~should_drop_weak,
            !.nodes[n].told_strong = (incs \/ @) /\ ~should_drop_strong,
            !.nodes[n].forced_weak = @ /\ ~should_drop_weak,
            !.nodes[n].forced_strong = @ /\ ~should_drop_strong,
            !.procs[Owner(n)].nodes =
                IF no_active_inc_refs /\ ~weak THEN @ \ {n} ELSE @,
            !.ev = Ev(t, cmds, TRUE)]

\* A faulty inc_ref_done_locked: the Node is never scheduled again.
inc_ref_done_locked_silent(S, n) ==
    LET N == S.nodes[n] IN
    IF N.active_inc_refs = 0 THEN [s |-> S, push |-> FALSE]
    ELSE [s |-> [S EXCEPT !.nodes[n].active_inc_refs = @ - 1], push |-> FALSE]

\* Node::inc_ref_done_locked: the state and whether to schedule the Node.
inc_ref_done_locked(S, n) ==
    LET N == S.nodes[n] IN
    IF N.active_inc_refs = 0 THEN [s |-> S, push |-> FALSE]
    ELSE LET S1 == [S EXCEPT !.nodes[n].active_inc_refs = @ - 1]
             strong == N.strong.count > 0
             weak == strong \/ N.weak.count > 0
             should_drop_weak == ~weak /\ N.weak.has_count
             should_drop_strong == ~strong /\ N.strong.has_count
         IN  [s |-> S1,
              push |-> N.active_inc_refs = 1
                       /\ (should_drop_weak \/ should_drop_strong)]


\* Process::inc_ref_done (BC_INCREFS_DONE / BC_ACQUIRE_DONE for Node n).
inc_ref_done(S, p, n) ==
    IF n \notin S.procs[p].nodes THEN S
    ELSE Bind(inc_ref_done_locked(S, n), LAMBDA r :
             IF r.push THEN ProcessInner_push_work(r.s, p, NItem(n)).s ELSE r.s)

\* ------------------------------------------------------------- NodeDeath
\* Thread::push_work_if_looper: the Thread's queue if it is a looper, the
\* Process queue otherwise.
Thread_push_work_if_looper(S, t, w) ==
    IF S.threads[t].looper /\ ~S.threads[t].is_dead
    THEN Thread_push_work(S, t, w).s
    ELSE ProcessInner_push_work(S, ProcOf(t), w).s

\* A faulty set_cleared: dead and notification_done are not looked at and
\* nothing is ever to be queued.
set_cleared_quiet(S, d, abort) ==
    [s |-> [S EXCEPT !.deaths[d].cleared = TRUE,
                     !.deaths[d].aborted = @ \/ abort],
     queue |-> FALSE]

\* NodeDeath::set_cleared: the state and whether the NodeDeath is to be queued.
set_cleared(S, d, abort) ==
    LET D == S.deaths[d]
        S1 == [S EXCEPT !.deaths[d].cleared = TRUE,
                        !.deaths[d].aborted = @ \/ abort]
    IN  [s |-> IF ~D.dead
               THEN [S1 EXCEPT !.nodes[D.node].death_list = RemoveFrom(@, d)]
               ELSE S1,
         queue |-> ~D.dead \/ D.notification_done]

\* A faulty set_notification_done: the NodeDeath is queued whether or not it
\* was cleared.
set_notification_done_always(S, d, t) ==
    Thread_push_work_if_looper(
        [S EXCEPT !.deaths[d].notification_done = TRUE], t, DItem(d))

\* NodeDeath::set_notification_done
set_notification_done(S, d, t) ==
    LET S1 == [S EXCEPT !.deaths[d].notification_done = TRUE] IN
    IF S.deaths[d].cleared THEN Thread_push_work_if_looper(S1, t, DItem(d))
    ELSE S1

\* NodeDeath::set_dead
set_dead(S, d) ==
    IF S.deaths[d].cleared THEN S
    ELSE ProcessInner_push_work([S EXCEPT !.deaths[d].dead = TRUE],
                                S.deaths[d].process, DItem(d)).s

\* A faulty death_delivered: the NodeDeath is not put on the list.
death_delivered_lost(S, p, d) == S

\* ProcessInner::death_delivered
death_delivered(S, p, d) ==
    [S EXCEPT !.procs[p].delivered_deaths = Append(@, d)]

\* ProcessInner::pull_delivered_death: the first delivered NodeDeath with the
\* cookie, 0 if there is none.
pull_delivered_death(S, p, cookie) ==
    LET l == S.procs[p].delivered_deaths
        hits == {k \in 1..Len(l) : S.deaths[l[k]].cookie = cookie}
    IN  IF hits = {} THEN 0
        ELSE l[CHOOSE k \in hits : \A j \in hits : k <= j]

\* A faulty do_work: the dispatch pass goes on after BR_DEAD_BINDER.
NodeDeath_do_work_continue(S, d, t) ==
    LET D == S.deaths[d]
        done == D.cleared /\ (~D.dead \/ D.notification_done)
    IN  IF D.aborted THEN [S EXCEPT !.ev = Ev(t, <<>>, TRUE)]
        ELSE IF done
        THEN [S EXCEPT !.deaths[d].clear_done = TRUE,
                       !.ev = Ev(t, <<Cmd("BR_CLEAR_DEATH_NOTIFICATION_DONE",
                                         D.cookie)>>, TRUE)]
        ELSE [death_delivered(S, D.process, d) EXCEPT
                  !.deaths[d].reader = t,
                  !.ev = Ev(t, <<Cmd("BR_DEAD_BINDER", D.cookie)>>, TRUE)]

\* <NodeDeath as DeliverToRead>::do_work by Thread t. reader and clear_done
\* record what was written for the NodeDeath.
NodeDeath_do_work(S, d, t) ==
    LET D == S.deaths[d]
        done == D.cleared /\ (~D.dead \/ D.notification_done)
    IN  IF D.aborted THEN [S EXCEPT !.ev = Ev(t, <<>>, TRUE)]
        ELSE IF done
        THEN [S EXCEPT !.deaths[d].clear_done = TRUE,
                       !.ev = Ev(t, <<Cmd("BR_CLEAR_DEATH_NOTIFICATION_DONE",
                                         D.cookie)>>, TRUE)]
        ELSE [death_delivered(S, D.process, d) EXCEPT
                  !.deaths[d].reader = t,
                  !.ev = Ev(t, <<Cmd("BR_DEAD_BINDER", D.cookie)>>, FALSE)]

\* The first critical section of <NodeDeath as DeliverToRead>::do_work by
\* Thread t, under the NodeDeath's lock: an aborted NodeDeath ends the
\* delivery; otherwise done is computed, and reading records that t is
\* between the two critical sections (begun: the first one was passed).
NodeDeath_do_work_begin(S, d, t) ==
    LET D == S.deaths[d] IN
    IF D.aborted THEN [S EXCEPT !.ev = Ev(t, <<>>, TRUE)]
    ELSE [S EXCEPT !.deaths[d].reading = t,
                   !.deaths[d].begun = TRUE,
                   !.deaths[d].done =
                       D.cleared /\ (~D.dead \/ D.notification_done),
                   !.ev = NoEv]

\* A faulty do_work: aborted is not looked at again before the insertion.
NodeDeath_do_work_end_unchecked(S, d, t) ==
    LET D == S.deaths[d]
        S1 == [S EXCEPT !.deaths[d].reading = ""]
    IN  IF D.done
        THEN [S1 EXCEPT !.deaths[d].clear_done = TRUE,
                        !.ev = Ev(t, <<Cmd("BR_CLEAR_DEATH_NOTIFICATION_DONE",
                                          D.cookie)>>, TRUE)]
        ELSE [death_delivered(S1, D.process, d) EXCEPT
                  !.deaths[d].reader = t,
                  !.ev = Ev(t, <<Cmd("BR_DEAD_BINDER", D.cookie)>>, FALSE)]

\* The rest of do_work: with done, BR_CLEAR_DEATH_NOTIFICATION_DONE is
\* written; otherwise, under the Process's and the NodeDeath's lock, an
\* aborted NodeDeath ends the delivery, and one that is not is put on the
\* delivered list, and BR_DEAD_BINDER is written.
NodeDeath_do_work_end(S, d, t) ==
    LET D == S.deaths[d]
        S1 == [S EXCEPT !.deaths[d].reading = ""]
    IN  IF D.done
        THEN [S1 EXCEPT !.deaths[d].clear_done = TRUE,
                        !.ev = Ev(t, <<Cmd("BR_CLEAR_DEATH_NOTIFICATION_DONE",
                                          D.cookie)>>, TRUE)]
        ELSE IF D.aborted THEN [S1 EXCEPT !.ev = Ev(t, <<>>, TRUE)]
        ELSE [death_delivered(S1, D.process, d) EXCEPT
                  !.deaths[d].reader = t,
                  !.ev = Ev(t, <<Cmd("BR_DEAD_BINDER", D.cookie)>>, FALSE)]

\* ------------------------------------------------------------- delivery
\* A faulty do_work: the send_failed_reply guard is never dismissed.
Transaction_do_work_undismissed(S, i, t, o) ==
    LET T == S.txns[i]
        S1 == [S EXCEPT !.txns[i].free_alloc = FALSE,
                        !.txns[i].st = "delivered",
                        !.threads[t].cur = IF IsCall(S, i) THEN i ELSE @,
                        !.ev = Ev(t, <<Cmd("BR_TRANSACTION", i)>>, FALSE)]
    IN  IF IsCall(S, i)
        THEN Thread_deliver_reply(S1, T.from, EItem(i, "BR_FAILED_REPLY"), i)
        ELSE S1

\* <Transaction as DeliverToRead>::do_work of a Transaction with a target
\* Node, by Thread t. o is what the environment does: "fdfail" is a failure
\* in prepare_file_list, "wfail" a failure to write to the read buffer.
Transaction_do_work(S, i, t, o) ==
    LET T == S.txns[i]
        send_failed_reply(X) ==
            IF IsCall(S, i)
            THEN Thread_deliver_reply(X, T.from, EItem(i, "BR_FAILED_REPLY"), i)
            ELSE X
    IN  IF o = "fdfail"
        THEN send_failed_reply(
                 Allocation_drop([S EXCEPT !.txns[i].free_alloc = FALSE,
                                           !.txns[i].st = "failed",
                                           !.ev = Ev(t, <<>>, TRUE)], i))
        ELSE IF o = "wfail"
        THEN Transaction_drop(
                 send_failed_reply([S EXCEPT !.txns[i].st = "failed",
                                             !.ev = Ev(t, <<>>, FALSE)]), i)
        ELSE [S EXCEPT !.txns[i].free_alloc = FALSE,
                       !.txns[i].st = "delivered",
                       !.threads[t].cur = IF IsCall(S, i) THEN i ELSE @,
                       !.ev = Ev(t, <<Cmd("BR_TRANSACTION", i)>>, FALSE)]

\* <Transaction as DeliverToRead>::do_work of the reply to call i (no target
\* Node: the guard does nothing).
Reply_do_work(S, i, t, o) ==
    IF o = "ok"
    THEN [S EXCEPT !.txns[i].rst = "delivered",
                   !.txns[i].nreply = @ + 1,
                   !.ev = Ev(t, <<Cmd("BR_REPLY", i)>>, FALSE)]
    ELSE [S EXCEPT !.txns[i].rst = "lost",
                   !.txns[i].rbuf = FALSE,
                   !.ev = Ev(t, <<>>, o = "fdfail")]

\* The outcomes the environment can give to the delivery of a work item.
Outcomes(S, w) ==
    IF w.k = "T" THEN {"ok", "wfail"} \cup (IF S.txns[w.i].files THEN {"fdfail"} ELSE {})
    ELSE IF w.k = "R"
    THEN {"ok", "wfail"} \cup (IF S.txns[w.i].rfiles THEN {"fdfail"} ELSE {})
    ELSE {"ok"}

\* DeliverToRead::do_work of any work item.
Work_do_work(S, w, t, o) ==
    CASE w.k = "T" -> Transaction_do_work(S, w.i, t, o)
      [] w.k = "R" -> Reply_do_work(S, w.i, t, o)
      [] w.k = "N" -> Node_do_work(S, w.i, t)
      [] w.k = "D" -> NodeDeath_do_work(S, w.i, t)
      [] OTHER -> [S EXCEPT !.ev = Ev(t, <<Cmd(w.c, w.i)>>, TRUE)]


\* ------------------------------------------------------------- handles
\* A faulty absorb: the absorbed NodeRef keeps its counters.
NodeRef_absorbed_kept(other) == other

\* NodeRef::absorb, what it leaves of the NodeRef it absorbed: every counter
\* is zero, so that its drop takes nothing from the Node.
NodeRef_absorbed(other) ==
    [other EXCEPT !.s = 0, !.w = 0, !.sn = 0, !.wn = 0]

\* A faulty absorb: the user counts are added, the node counts are not.
NodeRef_absorb_user_only(r, other) ==
    [r EXCEPT !.s = @ + other.s, !.w = @ + other.w]

\* NodeRef::absorb
NodeRef_absorb(r, other) ==
    [r EXCEPT !.sn = @ + other.sn, !.wn = @ + other.wn,
              !.s = @ + other.s, !.w = @ + other.w]

\* NodeRef::update: the state, the NodeRef after it, and whether the entry
\* is to be removed.
NodeRef_update(S, r, inc, strong) ==
    IF strong /\ r.s = 0 THEN [s |-> S, ref |-> r, remove |-> FALSE]
    ELSE LET count == IF strong THEN r.s ELSE r.w
             node_count == IF strong THEN r.sn ELSE r.wn
             other_count == IF strong THEN r.w ELSE r.s
             set(c, nc) == IF strong THEN [r EXCEPT !.s = c, !.sn = nc]
                           ELSE [r EXCEPT !.w = c, !.wn = nc]
         IN  IF inc
             THEN IF count = 0
                  THEN [s |-> Node_update_refcount(S, r.node, TRUE, 1, strong),
                        ref |-> set(1, 1), remove |-> FALSE]
                  ELSE [s |-> S, ref |-> set(count + 1, node_count),
                        remove |-> FALSE]
             ELSE IF count - 1 = 0
                  THEN [s |-> Node_update_refcount(S, r.node, FALSE, node_count,
                                                   strong),
                        ref |-> set(0, 0), remove |-> other_count = 0]
                  ELSE [s |-> S, ref |-> set(count - 1, node_count),
                        remove |-> FALSE]

\* A faulty search for the id: from 0 for every import.
FindId_from_zero(S, p, is_manager) ==
    LET free == {h \in Handles : S.refs[p].by_handle[h] = NoInfo}
    IN  CHOOSE h \in free : \A g \in free : h <= g

\* The id insert_or_update_handle finds: the lowest unused handle from 0 for
\* the manager, from 1 otherwise.
FindId(S, p, is_manager) ==
    LET start == IF is_manager THEN 0 ELSE 1
        free == {h \in Handles : h >= start /\ S.refs[p].by_handle[h] = NoInfo}
    IN  CHOOSE h \in free : \A g \in free : h <= g

\* The lookup that opens each critical section of insert_or_update_handle:
\* a Node that has a handle keeps it, the stored NodeRef absorbs r and what
\* is left of r is dropped; h is -1 when the Node has no handle.
lookup_handle(S, p, r) ==
    LET h == S.refs[p].by_global_id[r.node] IN
    IF h # -1
    THEN [s |-> NodeRef_drop(
                    [S EXCEPT !.refs[p].by_handle[h].ref = NodeRef_absorb(@, r)],
                    NodeRef_absorbed(r)),
          h |-> h]
    ELSE [s |-> S, h |-> -1]

\* A faulty second critical section: no second lookup.
insert_handle_unchecked(S, p, r, is_manager) ==
    IF S.procs[p].is_dead THEN [s |-> NodeRef_drop(S, r), h |-> -1]
    ELSE LET target == FindId(S, p, is_manager) IN
         [s |-> [S EXCEPT !.refs[p].by_global_id[r.node] = target,
                          !.refs[p].by_handle[target] = NodeRefInfo_new(r)],
          h |-> target]

\* The second critical section of insert_or_update_handle: the lookup again,
\* then the id is found and, if the Process is alive, both maps get the entry;
\* -1 for ESRCH (the NodeRef is then dropped).
insert_handle(S, p, r, is_manager) ==
    Bind(lookup_handle(S, p, r), LAMBDA l :
        IF l.h # -1 THEN l
        ELSE IF S.procs[p].is_dead THEN [s |-> NodeRef_drop(S, r), h |-> -1]
        ELSE LET target == FindId(S, p, is_manager) IN
             [s |-> [S EXCEPT !.refs[p].by_global_id[r.node] = target,
                              !.refs[p].by_handle[target] = NodeRefInfo_new(r)],
              h |-> target])

\* Process::insert_or_update_handle run without interruption: the state and
\* the handle.
insert_or_update_handle(S, p, r, is_manager) ==
    Bind(lookup_handle(S, p, r), LAMBDA l :
        IF l.h # -1 THEN l ELSE insert_handle(S, p, r, is_manager))

\* Process::remove_from_delivered_deaths
remove_from_delivered_deaths(S, p, d) ==
    [S EXCEPT !.procs[p].delivered_deaths = RemoveFrom(@, d)]

\* Process::update_ref (BC_INCREFS / BC_ACQUIRE / BC_RELEASE / BC_DECREFS).
update_ref(S, p, h, inc, strong) ==
    LET info == S.refs[p].by_handle[h]
        general ==
            IF info = NoInfo THEN S
            ELSE Bind(NodeRef_update(S, info.ref, inc, strong), LAMBDA u :
                 IF ~u.remove
                 THEN [u.s EXCEPT !.refs[p].by_handle[h].ref = u.ref]
                 ELSE [(IF info.death # 0
                        THEN remove_from_delivered_deaths(
                                 set_cleared(u.s, info.death, TRUE).s, p,
                                 info.death)
                        ELSE u.s)
                       EXCEPT !.refs[p].by_handle[h] = NoInfo,
                              !.refs[p].by_global_id[info.ref.node] = -1])
    IN  IF inc /\ h = 0
        THEN Bind(get_manager_node(S, strong), LAMBDA m :
                 IF ~m.ok THEN general
                 ELSE IF Owner(m.ref.node) = p THEN NodeRef_drop(m.s, m.ref)
                 ELSE insert_or_update_handle(m.s, p, m.ref, TRUE).s)
        ELSE general

\* ------------------------------------------------------------- Thread
\* Thread::push_return_work: the error fills the Thread's single return-work
\* slot, which is surfaced ahead of queued work.
Thread_push_return_work(S, t, w) ==
    [S EXCEPT !.threads[t].ret = w]

\* Thread::release: the Thread is marked dead, its queued work cancelled and
\* its transaction stack unwound.
Thread_release(S, t) ==
    LET S1 == [S EXCEPT !.threads[t].is_dead = TRUE, !.threads[t].work = <<>>]
    IN  unwind_transaction_stack(cancel_all(S1, S.threads[t].work), t)

RECURSIVE release_threads(_, _)
release_threads(S, ts) ==
    IF ts = {} THEN S
    ELSE LET t == CHOOSE x \in ts : TRUE
         IN  release_threads(Thread_release(S, t), ts \ {t})


\* ------------------------------------------------------------- sending
\* The next free slot of the Transaction table.
FreeIds(S) == {i \in TxnIds : S.txns[i].kind = "none"}
NewId(S) == CHOOSE i \in FreeIds(S) : \A j \in FreeIds(S) : i <= j

\* Thread::copy_transaction_data: the buffer is allocated in the recipient,
\* file descriptors are refused unless allowed, and an embedded binder object
\* (obj, a Node of the sender, 0 for none) becomes a handle of the recipient.
copy_transaction_data(S, t, to, files, allow_fds, obj) ==
    IF ~S.procs[to].mapping THEN [s |-> S, res |-> "BR_DEAD_REPLY"]
    ELSE IF files /\ ~allow_fds THEN [s |-> S, res |-> "BR_FAILED_REPLY"]
    ELSE IF obj = 0 THEN [s |-> S, res |-> "ok"]
    ELSE Bind(get_node(S, ProcOf(t), obj, TRUE, t), LAMBDA g :
         Bind(insert_or_update_handle(g.s, to, g.ref, FALSE), LAMBDA ins :
             [s |-> ins.s,
              res |-> IF ins.h = -1 THEN "BR_FAILED_REPLY" ELSE "ok"]))

\* A faulty Transaction::new: the NodeRef to the target is dropped at once
\* instead of being kept in the Allocation.
Transaction_new_unheld(S, i, node_ref, stack_next, from, kind, files, obj) ==
    LET n == node_ref.node IN
    Bind(copy_transaction_data(S, from, Owner(n), files, AcceptsFds(n), obj),
         LAMBDA c :
             IF c.res # "ok"
             THEN [s |-> NodeRef_drop(c.s, node_ref), res |-> c.res]
             ELSE [s |-> NodeRef_drop(
                             [c.s EXCEPT !.txns[i] =
                                 [NoTxn EXCEPT !.kind = kind, !.node = n,
                                               !.next = stack_next,
                                               !.from = from,
                                               !.to = Owner(n),
                                               !.files = files,
                                               !.free_alloc = TRUE,
                                               !.buf = TRUE, !.st = "new"]],
                             node_ref),
                   res |-> "ok"])

\* Transaction::new from the end of copy_transaction_data, whose result is c.
Transaction_new_copied(c, i, node_ref, stack_next, from, kind, files) ==
    LET n == node_ref.node IN
    IF c.res # "ok"
    THEN [s |-> NodeRef_drop(c.s, node_ref), res |-> c.res]
    ELSE IF kind = "oneway" /\ stack_next # 0
    THEN [s |-> NodeRef_drop(c.s, node_ref), res |-> "BR_FAILED_REPLY"]
    ELSE [s |-> [c.s EXCEPT !.txns[i] =
                    [NoTxn EXCEPT !.kind = kind, !.node = n,
                                  !.next = stack_next, !.from = from,
                                  !.to = Owner(n), !.files = files,
                                  !.free_alloc = TRUE, !.buf = TRUE,
                                  !.st = "new"]],
          res |-> "ok"]

\* Transaction::new into slot i: the state and "ok" or the error reply.
Transaction_new(S, i, node_ref, stack_next, from, kind, files, obj) ==
    LET n == node_ref.node IN
    Transaction_new_copied(
        copy_transaction_data(S, from, Owner(n), files, AcceptsFds(n), obj),
        i, node_ref, stack_next, from, kind, files)

\* Transaction::new when UniqueRef::try_new fails: the data was copied, the
\* NodeRef to the target was stored in the Allocation and keep_alive has
\* committed the buffer, so the drop of the Allocation on the error return
\* frees nothing. Slot i records the buffer; no Transaction exists.
Transaction_new_nomem(S, i, node_ref, stack_next, from, kind, files, obj) ==
    LET n == node_ref.node IN
    Bind(copy_transaction_data(S, from, Owner(n), files, AcceptsFds(n), obj),
         LAMBDA c :
             IF c.res # "ok"
             THEN [s |-> NodeRef_drop(c.s, node_ref), res |-> c.res]
             ELSE IF kind = "oneway" /\ stack_next # 0
             THEN [s |-> NodeRef_drop(c.s, node_ref), res |-> "BR_FAILED_REPLY"]
             ELSE [s |-> [c.s EXCEPT !.txns[i] =
                             [NoTxn EXCEPT !.kind = kind, !.node = n,
                                           !.from = from, !.to = Owner(n),
                                           !.buf = TRUE, !.st = "unbuilt"]],
                   res |-> "BR_FAILED_REPLY"])

\* Transaction::submit
Transaction_submit(S, i) ==
    IF IsOneway(S, i) THEN Node_submit_oneway(S, S.txns[i].node, i)
    ELSE LET th == find_target_thread(S, i) IN
         IF th # ""
         THEN Bind(Thread_push_work(S, th, TItem(i)), LAMBDA r :
                  [s |-> r.s, ok |-> r.res # "dead"])
         ELSE ProcessInner_push_new_transaction(S, S.txns[i].to, TItem(i))

\* The error reply of a failed lookup of the target.
LookupError(S, h) ==
    IF h = 0 /\ S.mgr.node = NoRef THEN "BR_DEAD_REPLY" ELSE "BR_FAILED_REPLY"

\* A faulty Thread::transaction: a Thread that waits for the reply to a call
\* it sent may send another call on top of it.
Thread_transaction_unstacked(S, t, h, files, obj) ==
    LET cur == S.threads[t].cur
        i == NewId(S)
    IN
    Bind(get_transaction_node(S, ProcOf(t), h), LAMBDA r :
    IF ~r.ok
    THEN Thread_push_return_work(r.s, t, EItem(0, LookupError(S, h)))
    ELSE
    Bind(Transaction_new(r.s, i, r.ref, cur, t, "call", files, obj), LAMBDA n :
    IF n.res # "ok"
    THEN Thread_push_return_work(n.s, t, EItem(0, n.res))
    ELSE
    Bind(Transaction_submit([n.s EXCEPT !.threads[t].cur = i,
                                        !.txns[i].depth0 = Depth(S, t),
                                        !.txns[i].st = "queued"], i),
         LAMBDA sub :
    IF sub.ok THEN sub.s
    ELSE Thread_push_return_work(
             Transaction_drop(
                 [sub.s EXCEPT !.threads[t].cur = cur,
                               !.txns[i].st = "rejected",
                               !.txns[i].err = "BR_DEAD_REPLY"], i),
             t, EItem(i, "BR_DEAD_REPLY")))))

\* Thread::transaction (BC_TRANSACTION without TF_ONE_WAY) by Thread t to
\* handle h. An error is returned to the caller as return work.
Thread_transaction(S, t, h, files, obj) ==
    LET cur == S.threads[t].cur
        i == NewId(S)
    IN
    Bind(get_transaction_node(S, ProcOf(t), h), LAMBDA r :
    IF ~r.ok
    THEN Thread_push_return_work(r.s, t, EItem(0, LookupError(S, h)))
    ELSE IF cur # 0 /\ S.txns[cur].from = t
    THEN Thread_push_return_work(NodeRef_drop(r.s, r.ref), t,
                                 EItem(0, "BR_FAILED_REPLY"))
    ELSE
    Bind(Transaction_new(r.s, i, r.ref, cur, t, "call", files, obj), LAMBDA n :
    IF n.res # "ok"
    THEN Thread_push_return_work(n.s, t, EItem(0, n.res))
    ELSE
    Bind(Transaction_submit([n.s EXCEPT !.threads[t].cur = i,
                                        !.txns[i].depth0 = Depth(S, t),
                                        !.txns[i].st = "queued"], i),
         LAMBDA sub :
    IF sub.ok THEN sub.s
    ELSE Thread_push_return_work(
             Transaction_drop(
                 [sub.s EXCEPT !.threads[t].cur = cur,
                               !.txns[i].st = "rejected",
                               !.txns[i].err = "BR_DEAD_REPLY"], i),
             t, EItem(i, "BR_DEAD_REPLY")))))

\* Thread::transaction when the Transaction cannot be allocated.
Thread_transaction_nomem(S, t, h, files, obj) ==
    LET cur == S.threads[t].cur
        i == NewId(S)
    IN
    Bind(get_transaction_node(S, ProcOf(t), h), LAMBDA r :
    IF ~r.ok
    THEN Thread_push_return_work(r.s, t, EItem(0, LookupError(S, h)))
    ELSE IF cur # 0 /\ S.txns[cur].from = t
    THEN Thread_push_return_work(NodeRef_drop(r.s, r.ref), t,
                                 EItem(0, "BR_FAILED_REPLY"))
    ELSE
    Bind(Transaction_new_nomem(r.s, i, r.ref, cur, t, "call", files, obj),
         LAMBDA n : Thread_push_return_work(n.s, t, EItem(0, n.res))))

\* The error of a oneway transaction: a dead target drops it silently, any
\* other failure is returned to the sender as return work.
Oneway_error(S, t, i, code) ==
    IF code = "BR_DEAD_REPLY" THEN S
    ELSE Thread_push_return_work(S, t, EItem(i, code))

\* Thread::oneway_transaction from the end of Transaction::new, whose result
\* for Transaction i is n.
Thread_oneway_submit(n, t, i) ==
    IF n.res # "ok"
    THEN Oneway_error(n.s, t, 0, n.res)
    ELSE
    Bind(Transaction_submit([n.s EXCEPT !.txns[i].st = "queued"], i),
         LAMBDA sub :
    IF sub.ok THEN sub.s
    ELSE Oneway_error(
             Transaction_drop([sub.s EXCEPT !.txns[i].st = "rejected"], i),
             t, i, "BR_DEAD_REPLY"))

\* Thread::oneway_transaction of t up to the end of buffer_alloc: the target
\* is resolved and the buffer reserved in the recipient's mapping; alloc
\* records the NodeRef to the target and the binder object to be translated.
Thread_oneway_alloc(S, t, h, obj) ==
    Bind(get_transaction_node(S, ProcOf(t), h), LAMBDA r :
        [r.s EXCEPT !.threads[t].alloc =
            [to |-> Owner(r.ref.node), ref |-> r.ref, obj |-> obj]])

\* The lookup of insert_or_update_handle finds the Node in by_global_id and
\* no entry for its handle in by_handle: by_handle.get_mut(&handle).unwrap()
\* panics.
unwrap_fails(S, p, n) ==
    /\ S.refs[p].by_global_id[n] # -1
    /\ S.refs[p].by_handle[S.refs[p].by_global_id[n]] = NoInfo

\* Thread::oneway_transaction of t from the translation of the binder object
\* on: get_node in the sender, insert_or_update_handle in the recipient, the
\* Transaction and its submission. A failed unwrap stops the kernel.
Thread_oneway_translate(S, t) ==
    LET a == S.threads[t].alloc
        i == NewId(S)
        S0 == [S EXCEPT !.threads[t].alloc = NoAlloc]
    IN
    Bind(get_node(S0, ProcOf(t), a.obj, TRUE, t), LAMBDA g :
    IF unwrap_fails(g.s, a.to, g.ref.node)
    THEN [S EXCEPT !.ev = Panicked]
    ELSE
    Bind(insert_or_update_handle(g.s, a.to, g.ref, FALSE), LAMBDA ins :
    [Thread_oneway_submit(
         Transaction_new_copied(
             [s |-> ins.s,
              res |-> IF ins.h = -1 THEN "BR_FAILED_REPLY" ELSE "ok"],
             i, a.ref, 0, t, "oneway", FALSE),
         t, i) EXCEPT !.ev = NoEv]))

\* Thread::oneway_transaction (BC_TRANSACTION with TF_ONE_WAY).
Thread_oneway_transaction(S, t, h, files, obj) ==
    LET i == NewId(S) IN
    Bind(get_transaction_node(S, ProcOf(t), h), LAMBDA r :
    IF ~r.ok
    THEN Oneway_error(r.s, t, 0, LookupError(S, h))
    ELSE Thread_oneway_submit(
             Transaction_new(r.s, i, r.ref, 0, t, "oneway", files, obj), t, i))

\* Transaction::new_reply for the reply to call c: the buffer is allocated in
\* the caller's Process.
Transaction_new_reply(S, c, files) ==
    IF ~S.procs[ProcOf(S.txns[c].from)].mapping THEN [s |-> S, ok |-> FALSE]
    ELSE [s |-> [S EXCEPT !.txns[c].rbuf = TRUE, !.txns[c].rfiles = files,
                          !.txns[c].rst = "new"],
          ok |-> TRUE]

\* Thread::oneway_transaction when the Transaction cannot be allocated.
Thread_oneway_transaction_nomem(S, t, h, files, obj) ==
    LET i == NewId(S) IN
    Bind(get_transaction_node(S, ProcOf(t), h), LAMBDA r :
    IF ~r.ok
    THEN Oneway_error(r.s, t, 0, LookupError(S, h))
    ELSE
    Bind(Transaction_new_nomem(r.s, i, r.ref, 0, t, "oneway", files, obj),
         LAMBDA n : Oneway_error(n.s, t, 0, n.res)))

\* Transaction::new_reply when UniqueRef::try_new fails: keep_alive has
\* committed the buffer in the caller's Process and nothing frees it.
Transaction_new_reply_nomem(S, c, files) ==
    IF ~S.procs[ProcOf(S.txns[c].from)].mapping THEN [s |-> S, ok |-> FALSE]
    ELSE [s |-> [S EXCEPT !.txns[c].rbuf = TRUE, !.txns[c].rst = "unbuilt"],
          ok |-> FALSE]

\* Thread::reply when the reply Transaction cannot be allocated: the caller
\* is sent BR_FAILED_REPLY.
Thread_reply_nomem(S, t, files) ==
    LET c == S.threads[t].cur
        S1 == [S EXCEPT !.threads[t].cur = find_from(S, c, t)]
        from == S.txns[c].from
    IN  IF S.threads[from].cur # c THEN S1
        ELSE Thread_deliver_reply(Transaction_new_reply_nomem(S1, c, files).s,
                                  from, EItem(c, "BR_FAILED_REPLY"), c)

\* Thread::reply (BC_REPLY) by Thread t: the top of its stack is popped and
\* answered; if the reply cannot be built the caller gets BR_FAILED_REPLY.
Thread_reply(S, t, files) ==
    LET c == S.threads[t].cur
        S1 == [S EXCEPT !.threads[t].cur = find_from(S, c, t)]
        from == S.txns[c].from
    IN  IF S.threads[from].cur # c THEN S1
        ELSE Bind(Transaction_new_reply(S1, c, files), LAMBDA n :
                 IF n.ok THEN Thread_deliver_reply(n.s, from, RItem(c), c)
                 ELSE Thread_deliver_reply(S1, from,
                                           EItem(c, "BR_FAILED_REPLY"), c))


\* ------------------------------------------------------------- death requests
\* The next free slot for a NodeDeath.
FreeDeaths(S) == {d \in DeathIds : S.deaths[d].process = ""}
NewDeath(S) == CHOOSE d \in FreeDeaths(S) : \A e \in FreeDeaths(S) : d <= e

\* A faulty request_death: the NodeDeath is put on the Node's list without a
\* look at is_dead of the owner.
request_death_unchecked(S, p, h, cookie) ==
    LET info == S.refs[p].by_handle[h]
        d == NewDeath(S)
        n == info.ref.node
        S1 == [S EXCEPT !.deaths[d] = [NoDeath EXCEPT !.node = n, !.process = p,
                                                      !.cookie = cookie],
                        !.refs[p].by_handle[h].death = d]
    IN  IF info = NoInfo \/ info.death # 0 THEN S
        ELSE [S1 EXCEPT !.nodes[n].death_list = Append(@, d)]

\* Process::request_death (BC_REQUEST_DEATH_NOTIFICATION).
request_death(S, p, h, cookie) ==
    LET info == S.refs[p].by_handle[h]
        d == NewDeath(S)
        n == info.ref.node
        S1 == [S EXCEPT !.deaths[d] = [NoDeath EXCEPT !.node = n, !.process = p,
                                                      !.cookie = cookie],
                        !.refs[p].by_handle[h].death = d]
    IN  IF info = NoInfo \/ info.death # 0 THEN S
        ELSE IF S.procs[Owner(n)].is_dead
        THEN ProcessInner_push_work(S1, p, DItem(d)).s
        ELSE [S1 EXCEPT !.nodes[n].death_list = Append(@, d)]

\* Process::clear_death (BC_CLEAR_DEATH_NOTIFICATION) by Thread t.
clear_death(S, t, h, cookie) ==
    LET p == ProcOf(t)
        info == S.refs[p].by_handle[h]
        d == info.death
    IN  IF info = NoInfo \/ d = 0 THEN S
        ELSE IF S.deaths[d].cookie # cookie THEN S
        ELSE Bind(set_cleared([S EXCEPT !.refs[p].by_handle[h].death = 0], d,
                              FALSE),
                  LAMBDA c :
                      IF c.queue THEN Thread_push_work_if_looper(c.s, t, DItem(d))
                      ELSE c.s)

\* Process::dead_binder_done (BC_DEAD_BINDER_DONE) by Thread t.
dead_binder_done(S, t, cookie) ==
    LET p == ProcOf(t)
        d == pull_delivered_death(S, p, cookie)
    IN  IF d = 0 THEN S
        ELSE set_notification_done(remove_from_delivered_deaths(S, p, d), d, t)

\* ------------------------------------------------------------- release
RECURSIVE drop_allocations(_, _, _)
RECURSIVE clear_deaths(_, _, _)
RECURSIVE cleanup_nodes(_, _)
RECURSIVE deliver_deaths(_, _)
RECURSIVE drop_node_refs(_, _, _)

\* The committed buffers of the mapping of p, each made an Allocation and
\* dropped, in address order.
drop_allocations(S, p, i) ==
    IF i > MaxTxn THEN S
    ELSE Bind(IF S.txns[i].to = p THEN Allocation_drop(S, i) ELSE S, LAMBDA S1 :
             drop_allocations(
                 IF S1.txns[i].from # "" /\ ProcOf(S1.txns[i].from) = p
                 THEN [S1 EXCEPT !.txns[i].rbuf = FALSE]
                 ELSE S1,
                 p, i + 1))

\* set_cleared(false) on every NodeDeath of the handle table taken from p.
clear_deaths(S, by_handle, hs) ==
    IF hs = {} THEN S
    ELSE LET h == CHOOSE x \in hs : \A y \in hs : x <= y
             d == by_handle[h].death
         IN  clear_deaths(IF d # 0 THEN set_cleared(S, d, FALSE).s ELSE S,
                          by_handle, hs \ {h})

cleanup_nodes(S, ns) ==
    IF ns = {} THEN S
    ELSE LET n == CHOOSE x \in ns : \A y \in ns : x <= y
         IN  cleanup_nodes(Node_cleanup_oneway(S, n), ns \ {n})

\* Node::next_death and set_dead until the death list of each Node is empty.
deliver_deaths(S, ns) ==
    IF ns = {} THEN S
    ELSE LET n == CHOOSE x \in ns : \A y \in ns : x <= y
             l == S.nodes[n].death_list
         IN  IF l = <<>> THEN deliver_deaths(S, ns \ {n})
             ELSE deliver_deaths(
                      set_dead([S EXCEPT !.nodes[n].death_list = Tail(@)],
                               Head(l)), ns)

\* The drop of the handle table taken from p, at the end of deferred_release.
drop_node_refs(S, by_handle, hs) ==
    IF hs = {} THEN S
    ELSE LET h == CHOOSE x \in hs : \A y \in hs : x <= y
         IN  drop_node_refs(
                 IF by_handle[h] # NoInfo THEN NodeRef_drop(S, by_handle[h].ref)
                 ELSE S,
                 by_handle, hs \ {h})

\* ------------------------------------------------------------- deferred work
\* workqueue::enqueue of the Process's work item: nothing happens if it is
\* already pending.
enqueue(S, p) == [S EXCEPT !.procs[p].pending = TRUE]

\* Process::flush: the bit is or-ed into defer_work under the inner lock, and
\* the work item is enqueued if defer_work was zero.
Process_flush(S, p) ==
    LET should_schedule == S.procs[p].defer_work = {}
        S1 == [S EXCEPT !.procs[p].defer_work = @ \cup {PROC_DEFER_FLUSH},
                        !.procs[p].sched = should_schedule,
                        !.procs[p].flush_due = TRUE]
    IN  IF should_schedule THEN enqueue(S1, p) ELSE S1

\* <Process as file::Operations>::release
Process_release(S, p) ==
    LET should_schedule == S.procs[p].defer_work = {}
        S1 == [S EXCEPT !.procs[p].defer_work = @ \cup {PROC_DEFER_RELEASE},
                        !.procs[p].sched = should_schedule,
                        !.procs[p].closed = TRUE]
    IN  IF should_schedule THEN enqueue(S1, p) ELSE S1

\* A faulty run_deferred: defer_work is read and not zeroed.
run_deferred_unzeroed(S, p) ==
    [S EXCEPT !.procs[p].defer = S.procs[p].defer_work,
              !.procs[p].run = "sampled"]

\* Process::run_deferred, its critical section: defer_work is read and
\* zeroed.
run_deferred(S, p) ==
    [S EXCEPT !.procs[p].defer = S.procs[p].defer_work,
              !.procs[p].defer_work = {},
              !.procs[p].run = "sampled"]

\* Process::deferred_flush, called by run_deferred: every Thread is told.
deferred_flush(S, p) ==
    [S EXCEPT !.procs[p].defer = @ \ {PROC_DEFER_FLUSH},
              !.procs[p].flush_due = FALSE]

\* Process::deferred_release up to the end of its first critical section.
deferred_release_mark(S, p) ==
    [S EXCEPT !.procs[p].is_dead = TRUE, !.procs[p].rel = "dead"]

\* The rest of Process::deferred_release, from the manager's removal.
deferred_release_rest(S, p) ==
    LET taken == S.refs[p].by_handle
        ns == S.procs[p].nodes
    IN
    Bind(IF S.procs[p].is_manager THEN unset_manager_node(S) ELSE S,
         LAMBDA S0 :
    Bind(cancel_all([S0 EXCEPT !.procs[p].work = <<>>], S0.procs[p].work),
         LAMBDA S1 :
    Bind(drop_allocations([S1 EXCEPT !.procs[p].mapping = FALSE], p, 1),
         LAMBDA S2 :
    Bind(clear_deaths(
             [S2 EXCEPT !.refs[p].by_handle = [h \in Handles |-> NoInfo]],
             taken, Handles),
         LAMBDA S3 :
    Bind(release_threads(
             cleanup_nodes([S3 EXCEPT !.procs[p].nodes = {}], ns),
             ThreadsOf(p)),
         LAMBDA S4 :
    Bind(deliver_deaths(S4, ns), LAMBDA S5 :
    [drop_node_refs(S5, taken, Handles) EXCEPT !.procs[p].rel = "released"]))))))


\* Thread t is not between the two critical sections of the delivery of a
\* NodeDeath.
Idle(t) == \A d \in DeathIds : deaths[d].reading # t

\* ------------------------------------------------------------- actions
\* A Thread can enter the driver while its Process's file is open.
CanRun(t) ==
    /\ procs[ProcOf(t)].rel = "open"
    /\ ~procs[ProcOf(t)].closed
    /\ threads[t].alloc = NoAlloc
    /\ threads[t].getn.at # "alloc"
    /\ ~threads[t].is_dead
    /\ Idle(t)

\* A Thread can write commands unless it is blocked waiting for work or is
\* inside insert_or_update_handle.
Awake(t) ==
    /\ CanRun(t)
    /\ ~InSeq(t, procs[ProcOf(t)].ready_threads)
    /\ imp[t] = NoRef

\* A step that writes nothing to a read buffer.
Quiet(S) == SetState([S EXCEPT !.ev = NoEv])

\* A binder device is made under the given name.
ContextNew(name) ==
    /\ contexts.made < MaxContexts
    /\ Quiet(Context_new(State, name))

\* The file of Context c is unlinked.
ContextDeregister(c) ==
    /\ c \in 1..contexts.made
    /\ Quiet(Context_deregister(State, c))

\* BINDER_SET_CONTEXT_MGR by Thread t for its Node n (Process::set_as_manager).
SetContextMgr(t, n) ==
    /\ Awake(t)
    /\ Owner(n) = ProcOf(t)
    /\ Quiet(Bind(get_node(State, ProcOf(t), n, TRUE, t), LAMBDA g :
             Bind(set_manager_node(g.s, g.ref, Euid(ProcOf(t))), LAMBDA m :
                 IF m.res = "ok"
                 THEN force_has_count(
                          [m.s EXCEPT !.procs[ProcOf(t)].is_manager = TRUE], n)
                 ELSE NodeRef_drop(m.s, g.ref))))

\* BC_TRANSACTION, a call.
Transact(t, h, files, obj) ==
    /\ Awake(t)
    /\ FreeIds(State) # {}
    /\ obj # 0 => Owner(obj) = ProcOf(t)
    /\ Quiet(Thread_transaction(State, t, h, files, obj))

\* BC_TRANSACTION with TF_ONE_WAY.
Oneway(t, h, files, obj) ==
    /\ Awake(t)
    /\ FreeIds(State) # {}
    /\ obj # 0 => Owner(obj) = ProcOf(t)
    /\ Quiet(Thread_oneway_transaction(State, t, h, files, obj))

\* BC_TRANSACTION with TF_ONE_WAY and a binder object, up to the end of
\* buffer_alloc in the recipient.
OnewayAlloc(t, h, obj) ==
    /\ Awake(t)
    /\ FreeIds(State) # {}
    /\ obj # 0 /\ Owner(obj) = ProcOf(t)
    /\ LET r == get_transaction_node(State, ProcOf(t), h) IN
           r.ok /\ procs[Owner(r.ref.node)].mapping
    /\ Quiet(Thread_oneway_alloc(State, t, h, obj))

\* The rest of that command.
OnewayTranslate(t) ==
    /\ threads[t].alloc # NoAlloc
    /\ FreeIds(State) # {}
    /\ SetState(Thread_oneway_translate(State, t))

\* Process::get_node by Thread t for a pointer of its Process, up to the end
\* of the first critical section.
GetNodeBegin(t, ptr, cookie, strong) ==
    /\ Awake(t)
    /\ threads[t].getn = NoGet
    /\ Owner(ptr) = ProcOf(t)
    /\ Quiet(get_node_lookup(State, t, ptr, cookie, strong))

\* The second critical section of that get_node.
GetNodeEnd(t) ==
    /\ threads[t].getn.at = "alloc"
    /\ Quiet(get_node_insert(State, t))

\* The caller of get_node is done with what it returned: the NodeRef is
\* dropped.
GetNodeDrop(t) ==
    /\ threads[t].getn.at = "done"
    /\ Quiet([(IF threads[t].getn.res = "ok"
               THEN NodeRef_drop(State, threads[t].getn.ref)
               ELSE State)
                 EXCEPT !.threads[t].getn = NoGet])

\* BC_REPLY to the call on top of the stack of t.
Reply(t, files) ==
    /\ Awake(t)
    /\ threads[t].cur # 0
    /\ txns[threads[t].cur].from # t
    /\ Quiet(Thread_reply(State, t, files))

\* BC_TRANSACTION, a call, when memory for the Transaction runs out.
TransactNoMem(t, h, files, obj) ==
    /\ Awake(t)
    /\ FreeIds(State) # {}
    /\ obj # 0 => Owner(obj) = ProcOf(t)
    /\ Quiet(Thread_transaction_nomem(State, t, h, files, obj))

\* BC_TRANSACTION with TF_ONE_WAY when memory for the Transaction runs out.
OnewayNoMem(t, h, files, obj) ==
    /\ Awake(t)
    /\ FreeIds(State) # {}
    /\ obj # 0 => Owner(obj) = ProcOf(t)
    /\ Quiet(Thread_oneway_transaction_nomem(State, t, h, files, obj))

\* BC_REPLY when memory for the reply Transaction runs out.
ReplyNoMem(t, files) ==
    /\ Awake(t)
    /\ threads[t].cur # 0
    /\ txns[threads[t].cur].from # t
    /\ Quiet(Thread_reply_nomem(State, t, files))

\* BC_FREE_BUFFER of the buffer of a delivered Transaction.
FreeBuffer(t, i) ==
    /\ Awake(t)
    /\ txns[i].to = ProcOf(t)
    /\ txns[i].st = "delivered"
    /\ txns[i].buf
    /\ Quiet(Allocation_drop(State, i))

\* BC_INCREFS / BC_ACQUIRE / BC_RELEASE / BC_DECREFS on handle h. The counts
\* of a handle are capped, and a weak count of zero is not decremented.
UpdateRef(t, h, inc, strong) ==
    /\ Awake(t)
    /\ LET r == refs[ProcOf(t)].by_handle[h].ref
           c == IF strong THEN r.s ELSE r.w
           nc == IF strong THEN r.sn ELSE r.wn
       IN  IF inc THEN c < MaxCount /\ nc < MaxCount ELSE strong \/ c > 0
    /\ Quiet(update_ref(State, ProcOf(t), h, inc, strong))

\* The mark of a step in which NodeRef::update computed 0 - 1 on a usize
\* counter: nothing is modelled after it.
Underflowed == Ev("underflow", <<>>, FALSE)

\* BC_INCREFS / BC_ACQUIRE / BC_RELEASE / BC_DECREFS on handle h, a weak
\* decrement of a weak count of zero included. There NodeRef::update computes
\* 0 - 1: with overflow checks the kernel panics (o = "panic": the step
\* changes no object), without them the counter wraps (o = "wrap": -1 stands
\* for usize::MAX).
NodeRefUpdate(t, h, inc, strong, o) ==
    LET r == refs[ProcOf(t)].by_handle[h].ref
        c == IF strong THEN r.s ELSE r.w
        nc == IF strong THEN r.sn ELSE r.wn
        under == ~inc /\ ~strong /\ c = 0
    IN  /\ Awake(t)
        /\ ev # Underflowed
        /\ refs[ProcOf(t)].by_handle[h] # NoInfo
        /\ inc => c < MaxCount /\ nc < MaxCount
        /\ o = (IF under THEN o ELSE "ok")
        /\ SetState(IF under /\ o = "panic"
                    THEN [State EXCEPT !.ev = Underflowed]
                    ELSE [update_ref(State, ProcOf(t), h, inc, strong)
                              EXCEPT !.ev = IF under THEN Underflowed
                                            ELSE NoEv])

\* BC_INCREFS / BC_ACQUIRE on handle 0 by a Thread of another Process than the
\* manager's, up to the end of the first critical section of
\* insert_or_update_handle: the manager's NodeRef is cloned and, if its Node
\* has a handle, absorbed; otherwise the Thread goes on holding it.
UpdateRefBegin(t, strong) ==
    /\ Awake(t)
    /\ mgr.node # NoRef
    /\ Owner(mgr.node.node) # ProcOf(t)
    /\ LET h == refs[ProcOf(t)].by_global_id[mgr.node.node]
           r == IF h = -1 THEN NoRef ELSE refs[ProcOf(t)].by_handle[h].ref
       IN  IF strong THEN r.sn < MaxCount ELSE r.wn < MaxCount
    /\ Quiet(Bind(get_manager_node(State, strong), LAMBDA m :
             IF ~m.ok THEN m.s
             ELSE Bind(lookup_handle(m.s, ProcOf(t), m.ref), LAMBDA l :
                      IF l.h # -1 THEN l.s
                      ELSE [m.s EXCEPT !.imp[t] = m.ref])))

\* The second critical section of insert_or_update_handle for the NodeRef the
\* Thread holds.
UpdateRefEnd(t) ==
    /\ CanRun(t)
    /\ imp[t] # NoRef
    /\ Quiet(insert_handle([State EXCEPT !.imp[t] = NoRef], ProcOf(t),
                           imp[t], TRUE).s)

\* BC_INCREFS_DONE / BC_ACQUIRE_DONE for Node n.
IncRefDone(t, n) ==
    /\ Awake(t)
    /\ Owner(n) = ProcOf(t)
    /\ Quiet(inc_ref_done(State, ProcOf(t), n))

\* BC_REQUEST_DEATH_NOTIFICATION
RequestDeath(t, h, cookie) ==
    /\ Awake(t)
    /\ FreeDeaths(State) # {}
    /\ Quiet(request_death(State, ProcOf(t), h, cookie))

\* BC_CLEAR_DEATH_NOTIFICATION
ClearDeath(t, h, cookie) ==
    /\ Awake(t)
    /\ Quiet(clear_death(State, t, h, cookie))

\* BC_DEAD_BINDER_DONE
DeadBinderDone(t, cookie) ==
    /\ Awake(t)
    /\ Quiet(dead_binder_done(State, t, cookie))

\* BC_ENTER_LOOPER
EnterLooper(t) ==
    /\ Awake(t)
    /\ ~threads[t].looper
    /\ Quiet([State EXCEPT !.threads[t].looper = TRUE])

\* Process::get_work_or_register finding no work: the Thread becomes ready.
Register(t) ==
    /\ Awake(t)
    /\ threads[t].ret = NoItem
    /\ threads[t].work = <<>>
    /\ threads[t].cur = 0
    /\ procs[ProcOf(t)].work = <<>>
    /\ Quiet([State EXCEPT !.procs[ProcOf(t)].ready_threads = Append(@, t)])

\* <Registration as Drop>::drop with no work found (signal, non-blocking read).
Unregister(t) ==
    /\ InSeq(t, procs[ProcOf(t)].ready_threads)
    /\ threads[t].work = <<>>
    /\ Quiet([State EXCEPT !.procs[ProcOf(t)].ready_threads = RemoveFrom(@, t)])

\* One turn of the dispatch loop of Thread t: the return work if there is
\* some; otherwise a work item is taken from the Thread's queue, or from the
\* Process's if the Thread's is empty and it has no transaction stack, its
\* registration is dropped, and the item is delivered with outcome o.
Read(t, o) ==
    /\ CanRun(t)
    /\ LET p == ProcOf(t)
           ret == threads[t].ret # NoItem
           local == threads[t].work # <<>>
           w == IF ret THEN threads[t].ret
                ELSE IF local THEN Head(threads[t].work)
                ELSE Head(procs[p].work)
           S1 == IF ret THEN [State EXCEPT !.threads[t].ret = NoItem]
                 ELSE [State EXCEPT
                          !.threads[t].work = IF local THEN Tail(@) ELSE @,
                          !.procs[p].work = IF local THEN @ ELSE Tail(@),
                          !.procs[p].ready_threads = RemoveFrom(@, t)]
       IN  /\ ret \/ local \/ (threads[t].cur = 0 /\ procs[p].work # <<>>)
           /\ o \in Outcomes(State, w)
           /\ SetState(Work_do_work(S1, w, t, o))

\* The work item the dispatch loop of Thread t takes next; NoItem if there
\* is none.
NextWork(t) ==
    IF threads[t].ret # NoItem THEN threads[t].ret
    ELSE IF threads[t].work # <<>> THEN Head(threads[t].work)
    ELSE IF threads[t].cur = 0 /\ procs[ProcOf(t)].work # <<>>
    THEN Head(procs[ProcOf(t)].work)
    ELSE NoItem

\* A turn of the dispatch loop of Thread t that takes a NodeDeath, up to the
\* end of the first critical section of its do_work.
ReadDeathBegin(t) ==
    /\ CanRun(t)
    /\ threads[t].ret = NoItem
    /\ NextWork(t).k = "D"
    /\ LET local == threads[t].work # <<>>
           S1 == [State EXCEPT
                     !.threads[t].work = IF local THEN Tail(@) ELSE @,
                     !.procs[ProcOf(t)].work = IF local THEN @ ELSE Tail(@),
                     !.procs[ProcOf(t)].ready_threads = RemoveFrom(@, t)]
       IN  SetState(NodeDeath_do_work_begin(S1, NextWork(t).i, t))

\* The rest of the delivery of the NodeDeath that Thread t has taken.
ReadDeathEnd(t) ==
    \E d \in DeathIds :
        /\ deaths[d].reading = t
        /\ SetState(NodeDeath_do_work_end(State, d, t))

\* The file of Process p is flushed (a descriptor of it is closed).
FileFlush(p) ==
    /\ procs[p].rel = "open"
    /\ ~procs[p].closed
    /\ Quiet(Process_flush(State, p))

\* The file of Process p is released: no Thread is inside an ioctl, and none
\* will be.
FileRelease(p) ==
    /\ procs[p].rel = "open"
    /\ ~procs[p].closed
    /\ procs[p].ready_threads = <<>>
    /\ \A t \in ThreadsOf(p) :
           /\ imp[t] = NoRef /\ Idle(t) /\ threads[t].alloc = NoAlloc
           /\ threads[t].getn = NoGet
    /\ Quiet(Process_release(State, p))

\* The workqueue starts the pending work item of Process p; it does not run
\* one work item twice at a time.
RunDeferredBegin(p) ==
    /\ procs[p].pending
    /\ procs[p].run = ""
    /\ Quiet([State EXCEPT !.procs[p].pending = FALSE,
                           !.procs[p].run = "started"])

\* run_deferred reads and zeroes defer_work.
RunDeferredSample(p) ==
    /\ procs[p].run = "started"
    /\ Quiet(run_deferred(State, p))

\* run_deferred calls deferred_flush.
DeferredFlush(p) ==
    /\ procs[p].run = "sampled"
    /\ PROC_DEFER_FLUSH \in procs[p].defer
    /\ Quiet(deferred_flush(State, p))

\* run_deferred calls deferred_release, which marks the Process dead.
DeferredRelease(p) ==
    /\ procs[p].run = "sampled"
    /\ PROC_DEFER_FLUSH \notin procs[p].defer
    /\ PROC_DEFER_RELEASE \in procs[p].defer
    /\ Quiet([deferred_release_mark(State, p) EXCEPT
                  !.procs[p].defer = @ \ {PROC_DEFER_RELEASE},
                  !.procs[p].released = @ + 1])

\* run_deferred returns.
RunDeferredEnd(p) ==
    /\ procs[p].run = "sampled"
    /\ procs[p].defer = {}
    /\ procs[p].rel # "dead"
    /\ Quiet([State EXCEPT !.procs[p].run = ""])

\* Process::release and the start of deferred_release. The file is released
\* when no Thread of the Process is inside an ioctl.
ReleaseMark(p) ==
    /\ procs[p].rel = "open"
    /\ ~procs[p].closed
    /\ procs[p].ready_threads = <<>>
    /\ \A t \in ThreadsOf(p) :
           /\ imp[t] = NoRef /\ Idle(t) /\ threads[t].alloc = NoAlloc
           /\ threads[t].getn = NoGet
    /\ Quiet(deferred_release_mark(State, p))

\* The rest of deferred_release, once is_dead is set: the manager is unset,
\* the work cancelled, buffers and references dropped, deaths delivered.
ReleaseRest(p) ==
    /\ procs[p].rel = "dead"
    /\ Quiet(deferred_release_rest(State, p))


\* ------------------------------------------------------------- specifications
\* Every operation with every input.
Next ==
    \/ \E t \in Threads, n \in Nodes : SetContextMgr(t, n)
    \/ \E t \in Threads, h \in Handles, f \in BOOLEAN, obj \in {0} \cup Nodes :
           Transact(t, h, f, obj)
    \/ \E t \in Threads, h \in Handles, f \in BOOLEAN, obj \in {0} \cup Nodes :
           Oneway(t, h, f, obj)
    \/ \E t \in Threads, f \in BOOLEAN : Reply(t, f)
    \/ \E t \in Threads, h \in Handles, f \in BOOLEAN, obj \in {0} \cup Nodes :
           TransactNoMem(t, h, f, obj)
    \/ \E t \in Threads, h \in Handles, f \in BOOLEAN, obj \in {0} \cup Nodes :
           OnewayNoMem(t, h, f, obj)
    \/ \E t \in Threads, f \in BOOLEAN : ReplyNoMem(t, f)
    \/ \E t \in Threads, i \in TxnIds : FreeBuffer(t, i)
    \/ \E t \in Threads, h \in Handles, inc \in BOOLEAN, strong \in BOOLEAN :
           UpdateRef(t, h, inc, strong)
    \/ \E t \in Threads, strong \in BOOLEAN : UpdateRefBegin(t, strong)
    \/ \E t \in Threads : UpdateRefEnd(t)
    \/ \E t \in Threads, n \in Nodes : IncRefDone(t, n)
    \/ \E t \in Threads, h \in Handles, c \in Cookies : RequestDeath(t, h, c)
    \/ \E t \in Threads, h \in Handles, c \in Cookies : ClearDeath(t, h, c)
    \/ \E t \in Threads, c \in Cookies : DeadBinderDone(t, c)
    \/ \E t \in Threads : EnterLooper(t)
    \/ \E t \in Threads : Register(t)
    \/ \E t \in Threads : Unregister(t)
    \/ \E t \in Threads, o \in {"ok", "fdfail", "wfail"} : Read(t, o)
    \/ \E p \in Procs : ReleaseMark(p)
    \/ \E p \in Procs : ReleaseRest(p)
    \/ \E t \in Threads, h \in Handles, obj \in Nodes : OnewayAlloc(t, h, obj)
    \/ \E t \in Threads : OnewayTranslate(t)
    \/ \E t \in Threads, n \in Nodes, c \in Cookies, strong \in BOOLEAN :
           GetNodeBegin(t, n, c, strong)
    \/ \E t \in Threads : GetNodeEnd(t)
    \/ \E t \in Threads : GetNodeDrop(t)
    \/ \E p \in Procs : FileFlush(p)
    \/ \E p \in Procs : FileRelease(p)
    \/ \E p \in Procs : RunDeferredBegin(p)
    \/ \E p \in Procs : RunDeferredSample(p)
    \/ \E p \in Procs : DeferredFlush(p)
    \/ \E p \in Procs : DeferredRelease(p)
    \/ \E p \in Procs : RunDeferredEnd(p)
    \/ \E t \in Threads : ReadDeathBegin(t)
    \/ \E t \in Threads : ReadDeathEnd(t)
    \/ \E t \in Threads, h \in Handles, inc \in BOOLEAN, strong \in BOOLEAN,
          o \in {"ok", "panic", "wrap"} : NodeRefUpdate(t, h, inc, strong, o)
    \/ \E name \in ContextNames : ContextNew(name)
    \/ \E c \in 1..MaxContexts : ContextDeregister(c)

Spec == Init /\ [][Next]_vars

\* Oneway traffic: Process "A" is the context manager, Thread "b1" sends
\* oneway transactions to handle 0, the Threads of "A" read them and free
\* their buffers, and "A" may be released.
NextOneway ==
    \/ \E t \in ThreadsOf("A") : SetContextMgr(t, 1)
    \/ \E f \in BOOLEAN : Oneway("b1", 0, f, 0)
    \/ \E t \in ThreadsOf("A") : Register(t)
    \/ \E t \in ThreadsOf("A") : Unregister(t)
    \/ \E t \in Threads, o \in {"ok", "fdfail", "wfail"} : Read(t, o)
    \/ \E t \in ThreadsOf("A"), i \in TxnIds : FreeBuffer(t, i)
    \/ ReleaseMark("A")
    \/ ReleaseRest("A")

SpecOneway == Init /\ [][NextOneway]_vars


\* ------------------------------------------------------------- oneway claims
\* The oneway Transactions that target Node n. Slots are filled in the order
\* of submission, so a smaller id was submitted earlier.
OnewaysTo(n) == {i \in TxnIds : txns[i].kind = "oneway" /\ txns[i].node = n}

InFlight(n) ==
    {i \in OnewaysTo(n) :
        \/ InSeq(TItem(i), procs[Owner(n)].work)
        \/ \E t \in ThreadsOf(Owner(n)) : InSeq(TItem(i), threads[t].work)
        \/ txns[i].st = "delivered" /\ txns[i].buf}

C2_AtMostOne ==
    \A n \in Nodes :
        ~procs[Owner(n)].is_dead => Cardinality(InFlight(n)) <= 1

\* A step in which a transaction leaves the oneway queue of a Node with a
\* live owner: it is the head of the queue, and the step releases the buffer
\* of the transaction that was in flight.
C2_LeavesOnFinish ==
    \A n \in Nodes :
        (~procs[Owner(n)].is_dead
         /\ Len(nodes'[n].oneway_todo) < Len(nodes[n].oneway_todo))
        => /\ nodes'[n].oneway_todo = Tail(nodes[n].oneway_todo)
           /\ \E i \in InFlight(n) : txns[i].buf /\ ~txns'[i].buf

NextRef ==
    \/ SetContextMgr("a1", 1)
    \/ /\ FreeIds(State) = TxnIds
       /\ Oneway("b1", 0, FALSE, 2)
    \/ \E inc \in BOOLEAN, strong \in BOOLEAN : UpdateRef("a1", 1, inc, strong)
    \/ \E inc \in BOOLEAN, strong \in BOOLEAN : UpdateRef("b1", 0, inc, strong)
    \/ \E t \in {"a1", "b1"}, n \in Nodes : IncRefDone(t, n)
    \/ \E t \in {"a1", "b1"} : Read(t, "ok")
    \/ \E i \in TxnIds : FreeBuffer("a1", i)

SpecRef == Init /\ [][NextRef]_vars

\* The last step wrote command c about Node n.
Wrote(c, n) == InSeq(Cmd(c, n), ev.cmds)

\* C3: active_inc_refs of every Node is 0, 1 or 2, and a Node delivery that
\* writes BR_RELEASE or BR_DECREFS for a Node leaves it with no
\* unacknowledged BR_INCREFS / BR_ACQUIRE.
C3_ActiveIncRefs ==
    \A n \in Nodes :
        /\ nodes[n].active_inc_refs \in {0, 1, 2}
        /\ (Wrote("BR_RELEASE", n) \/ Wrote("BR_DECREFS", n))
               => nodes[n].active_inc_refs = 0

\* A Node whose BR_INCREFS and BR_ACQUIRE were both outstanding has had both
\* acknowledged, and the delivery that follows writes BR_RELEASE.
C3_Witness ==
    \E n \in Nodes : Wrote("BR_RELEASE", n) /\ Wrote("BR_DECREFS", n)

C3_WitnessTwo ==
    \E n \in Nodes : nodes[n].active_inc_refs = 2 /\ nodes[n].strong.count = 0

MoreCalls(t) ==
    Cardinality({i \in TxnIds : txns[i].kind = "call" /\ txns[i].from = t})
        < MaxCalls

\* Calls and replies: "A" becomes the context manager, "b1" may first give
\* it a handle to B's Node 2 in a oneway transaction, "a1" calls through that
\* handle and "b1" calls handle 0 (possibly carrying files), one after the
\* other or one nested in the other, everybody reads and replies (the
\* replies of "b1" carry files), and "a2" may wait for work.
NextCall ==
    \/ /\ mgr.node = NoRef
       /\ SetContextMgr("a1", 1)
    \/ /\ FreeIds(State) = TxnIds
       /\ Oneway("b1", 0, FALSE, 2)
    \/ /\ MoreCalls("a1")
       /\ Transact("a1", 1, FALSE, 0)
    \/ /\ MoreCalls("b1")
       /\ \E f \in BOOLEAN : Transact("b1", 0, f, 0)
    \/ \E t \in Threads : Reply(t, t = "b1")
    \/ Register("a2")
    \/ \E t \in Threads, o \in {"ok", "fdfail", "wfail"} : Read(t, o)

SpecCall == Init /\ [][NextCall]_vars

\* The frames of the stack that starts at Transaction i, top first.
RECURSIVE ChainOf(_, _)
ChainOf(tx, i) == IF i = 0 THEN <<>> ELSE <<i>> \o ChainOf(tx, tx[i].next)

\* The sender of the frame nearest to the top of the stack at i that was
\* sent by a Thread of Process p; "" if there is none.
NearestFrom(tx, i, p) ==
    LET c == ChainOf(tx, i)
        K == {k \in 1..Len(c) : ProcOf(tx[c[k]].from) = p}
    IN  IF K = {} THEN ""
        ELSE tx[c[CHOOSE k \in K : \A l \in K : k <= l]].from

\* A step that creates call i and submits it.
C8_Routes ==
    \A i \in TxnIds :
        (txns[i].kind = "none" /\ txns'[i].kind = "call") =>
            LET to == txns'[i].to
                th == NearestFrom(txns', txns'[i].next, to)
                queued == txns'[i].st = "queued"
            IN  IF th # ""
                THEN /\ ~InSeq(TItem(i), procs'[to].work)
                     /\ \A u \in Threads \ {th} : ~InSeq(TItem(i), threads'[u].work)
                     /\ queued => InSeq(TItem(i), threads'[th].work)
                ELSE queued =>
                         \/ InSeq(TItem(i), procs'[to].work)
                         \/ \E u \in ThreadsOf(to) :
                                /\ InSeq(u, procs[to].ready_threads)
                                /\ InSeq(TItem(i), threads'[u].work)

\* C8: a call submitted while its stack holds a frame sent by a Thread of the
\* recipient Process is pushed onto the queue of that Thread (the sender of
\* the nearest such frame), not onto the recipient's Process queue and not
\* onto the queue of another Thread; a call with no such frame goes through
\* the Process: onto its queue, or to one of its ready Threads.
C8_Donation == [][C8_Routes]_vars

\* "a1" waits for the reply to its call, the nested call of "b1" is on the
\* queue of "a1", and "a2" is ready and has been given nothing.
C8_Witness ==
    /\ threads["a1"].cur # 0
    /\ txns[threads["a1"].cur].from = "a1"
    /\ InSeq("a2", procs["A"].ready_threads)
    /\ threads["a2"].work = <<>>
    /\ \E i \in TxnIds :
           /\ txns[i].kind = "call" /\ txns[i].from = "b1"
           /\ txns[i].next = threads["a1"].cur
           /\ InSeq(TItem(i), threads["a1"].work)

\* The calls sent and accepted.
Calls == {i \in TxnIds : txns[i].kind = "call" /\ txns[i].st # "rejected"}

\* Transaction i is a frame of the stack of Thread t.
OnStack(t, i) == InSeq(i, ChainOf(txns, threads[t].cur))

FailedReplySent(th, t, i) == InSeq(EItem(i, "BR_FAILED_REPLY"), th[t].work)

\* A step in which a Thread's dispatch loop runs do_work of call i.
C10_Outcome ==
    \A i \in TxnIds :
        (txns[i].kind = "call" /\ txns[i].st = "queued"
         /\ txns'[i].st \in {"delivered", "failed"}) =>
            LET t == ev'.t
                written == InSeq(Cmd("BR_TRANSACTION", i), ev'.cmds)
                current == threads'[t].cur = i
                failed == FailedReplySent(threads', txns[i].from, i)
            IN  /\ \/ written /\ current /\ ~failed /\ txns'[i].err = ""
                   \/ ~written /\ ~current /\ failed
                /\ (txns[i].files /\ ev'.cmds = <<>> /\ ev'.cont)
                       => failed /\ ~current

\* C10: every do_work of a call ends in exactly one of two ways: the header
\* is written, the call is the reader's current frame and no FAILED_REPLY is
\* sent; or nothing is written, FAILED_REPLY is sent to the sender and the
\* call is not on the reader's stack. A failure to reserve file descriptors
\* ends in the second way.
C10_DeliveredOrFailed == [][C10_Outcome]_vars

\* The file descriptors of a call could not be reserved: nothing was written
\* and the sender has the FAILED_REPLY.
C10_Witness ==
    \E i \in Calls :
        /\ txns[i].files /\ txns[i].st = "failed"
        /\ ev.cmds = <<>> /\ ev.cont /\ ev.t \in ThreadsOf(txns[i].to)
        /\ FailedReplySent(threads, txns[i].from, i)
        /\ \A t \in Threads : threads[t].cur # i


\* ------------------------------------------------------------- dead recipient
\* A recipient that dies: "A" becomes the context manager, "b1" sends calls
\* and oneway transactions to handle 0, the Threads of "A" wait for work and
\* read, "a1" replies, and either Process may be released.
NextDead ==
    \/ /\ mgr.node = NoRef
       /\ SetContextMgr("a1", 1)
    \/ Transact("b1", 0, FALSE, 0)
    \/ Oneway("b1", 0, FALSE, 0)
    \/ \E t \in ThreadsOf("A") : Reply(t, FALSE)
    \/ \E t \in ThreadsOf("A") : Register(t)
    \/ \E t \in Threads, o \in {"ok", "wfail"} : Read(t, o)
    \/ \E p \in Procs : ReleaseMark(p)
    \/ \E p \in Procs : ReleaseRest(p)

SpecDead == Init /\ [][NextDead]_vars

\* The Transactions whose recipient died before they were delivered: cancelled
\* on a queue of the recipient, or refused by the push because the recipient
\* was already marked dead.
Undelivered == {i \in TxnIds : txns[i].st \in {"cancelled", "rejected"}}

\* An error reply for Transaction i is pending at Thread t.
ErrorPending(t, i) ==
    \/ threads[t].ret.k = "E" /\ threads[t].ret.i = i
    \/ \E c \in {"BR_DEAD_REPLY", "BR_FAILED_REPLY"} :
           InSeq(EItem(i, c), threads[t].work)

C5_Replied ==
    /\ \A i \in Undelivered :
           /\ \A t \in Threads : threads[t].cur # i
           /\ IF txns[i].kind = "call"
              THEN ~threads[txns[i].from].is_dead
                       => txns[i].err = "BR_DEAD_REPLY"
              ELSE txns[i].err = "" /\ ~ErrorPending(txns[i].from, i)
    /\ \A i \in TxnIds :
           (txns[i].kind # "none" /\ procs[txns[i].to].rel = "released")
               => txns[i].st # "queued"

\* A Transaction becomes undelivered only from the queue or at its
\* submission, and stays so.
C5_Final ==
    \A i \in TxnIds :
        /\ i \in Undelivered => txns'[i].st = txns[i].st
        /\ (i \notin Undelivered /\ txns'[i].st \in {"cancelled", "rejected"})
               => txns[i].st \in {"none", "queued"}

\* C5: a call whose recipient Process is dead before the call is delivered
\* (cancelled on a queue at the release, or pushed after the Process was
\* marked dead) gets BR_DEAD_REPLY to its sender, as long as the sender is
\* there to take it, and is never delivered; a oneway transaction in that
\* situation is dropped and its sender gets no reply.
C5_DeadRecipient == [](C5_Replied) /\ [][C5_Final]_vars

\* The release of "A" has cancelled a call and a oneway transaction of "b1",
\* and "b1" has read the BR_DEAD_REPLY of the call.
C5_Witness ==
    /\ ~threads["b1"].is_dead
    /\ \E i, j \in TxnIds :
           /\ txns[i].kind = "call" /\ txns[i].st = "cancelled"
           /\ txns[j].kind = "oneway" /\ txns[j].st = "cancelled"
           /\ ev = Ev("b1", <<Cmd("BR_DEAD_REPLY", i)>>, TRUE)

\* A call of "b1" was refused because "A" was already marked dead.
C5_WitnessRefused ==
    /\ ~threads["b1"].is_dead
    /\ \E k \in TxnIds :
           /\ txns[k].kind = "call" /\ txns[k].st = "rejected"
           /\ ev = Ev("b1", <<Cmd("BR_DEAD_REPLY", k)>>, TRUE)


\* ------------------------------------------------------------- death
\* Death notifications: "A" becomes the context manager, "b1" takes and
\* drops a reference to handle 0, requests and clears death notifications on
\* it, enters the looper, reads and acknowledges, and "A" is released.
NextDeath ==
    \/ /\ mgr.node = NoRef
       /\ SetContextMgr("a1", 1)
    \/ /\ refs["B"].by_handle[0] = NoInfo
       /\ UpdateRef("b1", 0, TRUE, TRUE)
    \/ UpdateRef("b1", 0, FALSE, TRUE)
    \/ \E c \in Cookies : RequestDeath("b1", 0, c)
    \/ \E c \in Cookies : ClearDeath("b1", 0, c)
    \/ \E c \in Cookies : DeadBinderDone("b1", c)
    \/ EnterLooper("b1")
    \/ Read("b1", "ok")
    \/ ReleaseMark("A")
    \/ ReleaseRest("A")

SpecDeath == Init /\ [][NextDeath]_vars

\* The mark left in ev by a direct call of NodeDeath::set_cleared.
ClearedAgain == Ev("set_cleared", <<>>, TRUE)

\* NodeDeath::set_cleared(abort) called on NodeDeath d when d is cleared
\* already. No caller in the driver does this (each takes the NodeDeath out
\* of its handle first), so the call is applied to the states the driver
\* reaches and nothing is run after it.
NodeDeath_set_cleared(d, abort) ==
    /\ ev # ClearedAgain
    /\ deaths[d].process # ""
    /\ deaths[d].cleared
    /\ SetState([set_cleared(State, d, abort).s EXCEPT !.ev = ClearedAgain])

\* Death notifications, and set_cleared(true) on the cleared NodeDeaths.
NextCleared ==
    \/ /\ ev # ClearedAgain
       /\ mgr.node = NoRef
       /\ SetContextMgr("a1", 1)
    \/ /\ ev # ClearedAgain
       /\ refs["B"].by_handle[0] = NoInfo
       /\ UpdateRef("b1", 0, TRUE, TRUE)
    \/ /\ ev # ClearedAgain
       /\ UpdateRef("b1", 0, FALSE, TRUE)
    \/ /\ ev # ClearedAgain
       /\ \E c \in Cookies : RequestDeath("b1", 0, c)
    \/ /\ ev # ClearedAgain
       /\ \E c \in Cookies : ClearDeath("b1", 0, c)
    \/ /\ ev # ClearedAgain
       /\ \E c \in Cookies : DeadBinderDone("b1", c)
    \/ /\ ev # ClearedAgain
       /\ EnterLooper("b1")
    \/ /\ ev # ClearedAgain
       /\ Read("b1", "ok")
    \/ /\ ev # ClearedAgain
       /\ ReleaseMark("A")
    \/ /\ ev # ClearedAgain
       /\ ReleaseRest("A")
    \/ \E d \in DeathIds : NodeDeath_set_cleared(d, TRUE)

SpecCleared == Init /\ [][NextCleared]_vars

\* The NodeDeaths requested.
Deaths == {d \in DeathIds : deaths[d].process # ""}

\* NodeDeath d is on a queue of its subscriber, waiting to be read.
Pending(d) ==
    \/ InSeq(DItem(d), procs[deaths[d].process].work)
    \/ \E t \in ThreadsOf(deaths[d].process) : InSeq(DItem(d), threads[t].work)

\* The owner of the Node of d has been torn down and the subscription was
\* not cleared: BR_DEAD_BINDER has been delivered or is waiting to be read.
\* (The dead flag is set by set_dead only: a NodeDeath requested after the
\* owner was marked dead is queued without it.)
DeadBinderFollows(d) ==
    (procs[Owner(deaths[d].node)].rel = "released" /\ ~deaths[d].cleared)
        => deaths[d].reader # "" \/ Pending(d)

\* C6 as stated: when the owner is torn down the subscriber gets
\* BR_DEAD_BINDER, and once it has sent BC_DEAD_BINDER_DONE,
\* BR_CLEAR_DEATH_NOTIFICATION_DONE has been delivered or is waiting to be
\* read.
C6_DoneFollowsAck ==
    \A d \in Deaths :
        /\ DeadBinderFollows(d)
        /\ (deaths[d].dead /\ deaths[d].notification_done)
               => deaths[d].clear_done \/ Pending(d)

\* C6 amended: when the owner is torn down the subscriber gets
\* BR_DEAD_BINDER; BR_CLEAR_DEATH_NOTIFICATION_DONE follows
\* BC_DEAD_BINDER_DONE only if the subscriber has also cleared the
\* subscription with BC_CLEAR_DEATH_NOTIFICATION, and after the
\* acknowledgement alone nothing is queued for the NodeDeath.
C6_DoneFollowsAckAndClear ==
    \A d \in Deaths :
        /\ DeadBinderFollows(d)
        /\ (deaths[d].dead /\ deaths[d].notification_done)
               => IF deaths[d].cleared
                  THEN deaths[d].aborted \/ deaths[d].clear_done \/ Pending(d)
                  ELSE ~deaths[d].clear_done /\ ~Pending(d)
        /\ (deaths[d].dead /\ deaths[d].clear_done)
               => deaths[d].cleared /\ deaths[d].notification_done

\* "b1" was told of the death, has acknowledged it and cleared the
\* subscription, and has just read BR_CLEAR_DEATH_NOTIFICATION_DONE.
C6_Witness ==
    \E d \in Deaths :
        /\ procs["A"].rel = "released"
        /\ deaths[d].dead /\ deaths[d].reader = "b1"
        /\ deaths[d].notification_done /\ deaths[d].cleared
        /\ deaths[d].clear_done
        /\ ev = Ev("b1", <<Cmd("BR_CLEAR_DEATH_NOTIFICATION_DONE",
                               deaths[d].cookie)>>, TRUE)

\* The delivered and unacknowledged NodeDeaths of Process p.
Delivered(p) == {d \in Deaths : InSeq(d, procs[p].delivered_deaths)}

\* The step is a turn of the dispatch loop of Thread t.
ReadBy(t) == ev'.t = t /\ vars' # vars

\* The step acknowledges NodeDeath d.
Acks(d) == ~deaths[d].notification_done /\ deaths'[d].notification_done

C7_Step ==
    \A d \in Deaths :
        /\ (deaths[d].reader = "" /\ deaths'[d].reader # "")
               => /\ ReadBy(deaths'[d].reader)
                  /\ ev'.cmds = <<Cmd("BR_DEAD_BINDER", deaths[d].cookie)>>
                  /\ ~ev'.cont
                  /\ procs'[deaths[d].process].delivered_deaths
                         = Append(procs[deaths[d].process].delivered_deaths, d)
        /\ Acks(d)
               => /\ d = pull_delivered_death(State, deaths[d].process,
                                              deaths[d].cookie)
                  /\ procs'[deaths[d].process].delivered_deaths
                         = RemoveFrom(procs[deaths[d].process].delivered_deaths, d)

NextTarget ==
    \/ /\ mgr.node = NoRef
       /\ SetContextMgr("a1", 1)
    \/ /\ FreeIds(State) = TxnIds
       /\ Oneway("b1", 0, FALSE, 2)
    \/ \E inc \in BOOLEAN, strong \in BOOLEAN : UpdateRef("a1", 1, inc, strong)
    \/ /\ MoreCalls("a1")
       /\ Transact("a1", 1, FALSE, 0)
    \/ Oneway("a1", 1, FALSE, 0)
    \/ IncRefDone("b1", 2)
    \/ \E t \in {"a1", "b1"} : Read(t, "ok")
    \/ \E i \in TxnIds : FreeBuffer("b1", i)

SpecTarget == Init /\ [][NextTarget]_vars

\* Transaction i has been submitted to Node n and not yet delivered.
Awaiting(i, n) == txns[i].node = n /\ txns[i].st = "queued"

\* C11: a step that delivers BR_RELEASE or BR_DECREFS for Node n to its owner
\* never happens while a transaction submitted to n awaits delivery.
C11_NotOvertaken ==
    \A n \in Nodes :
        (Wrote("BR_RELEASE", n) \/ Wrote("BR_DECREFS", n)) =>
            \A i \in TxnIds : ~Awaiting(i, n)

\* A transaction to Node 2 awaits delivery, the sender has given up its own
\* strong count on the handle, and the owner has just read the Node's work
\* item, which wrote nothing.
C11_Witness ==
    \E i \in TxnIds :
        /\ Awaiting(i, 2)
        /\ txns[i].from = "a1"
        /\ refs["A"].by_handle[1].ref.s = 0
        /\ nodes[2].strong.has_count
        /\ nodes[2].strong.count = 1
        /\ ev.t = "b1"
        /\ ev.cmds = <<>>

\* ------------------------------------------------------------- handle claims
\* The handle tables: "B" is the context manager, the two Threads of "A"
\* import it through handle 0, each in two critical sections, "B" is handed
\* Node 1 and, once that has a handle, its own Node 2 in oneway transactions,
\* both Processes lower the counts of their handles, and "A" may be released.
NextImport ==
    \/ /\ mgr.node = NoRef
       /\ SetContextMgr("b1", 2)
    \/ \E t \in ThreadsOf("A"), strong \in BOOLEAN : UpdateRefBegin(t, strong)
    \/ \E t \in ThreadsOf("A") : UpdateRefEnd(t)
    \/ \E t \in ThreadsOf("A"), h \in Handles, strong \in BOOLEAN :
           UpdateRef(t, h, FALSE, strong)
    \/ \E h \in Handles : UpdateRef("b1", h, FALSE, TRUE)
    \/ Oneway("a1", 0, FALSE, 1)
    \/ /\ refs["B"].by_handle[1] # NoInfo
       /\ refs["B"].by_handle[2] = NoInfo
       /\ Oneway("b1", 0, FALSE, 2)
    \/ ReleaseMark("A")
    \/ ReleaseRest("A")

SpecImport == Init /\ [][NextImport]_vars

\* Every entry of by_handle of Process p is the one by_global_id names.
HandleToId(p) ==
    \A h \in Handles :
        refs[p].by_handle[h] # NoInfo =>
            refs[p].by_global_id[refs[p].by_handle[h].ref.node] = h

\* Every entry of by_global_id of Process p names an entry of by_handle that
\* holds its Node.
IdToHandle(p) ==
    \A n \in Nodes :
        refs[p].by_global_id[n] # -1 =>
            /\ refs[p].by_global_id[n] \in Handles
            /\ refs[p].by_handle[refs[p].by_global_id[n]].ref.node = n

\* C12: in every Process by_handle and by_global_id are inverse maps, after
\* any run of insert_or_update_handle, update_ref and deferred release.
C12_InverseMaps == \A p \in Procs : HandleToId(p) /\ IdToHandle(p)

\* No two handles of a Process hold the same Node.
C13_OneHandle ==
    \A p \in Procs : \A g, h \in Handles :
        (/\ refs[p].by_handle[g] # NoInfo
         /\ refs[p].by_handle[h] # NoInfo
         /\ refs[p].by_handle[g].ref.node = refs[p].by_handle[h].ref.node)
            => g = h

\* A step in which the NodeRef stored for a Node that has a handle gains
\* node counts leaves the handle and every other entry as they are and adds
\* to the stored NodeRef the counters of one new NodeRef (a strong or a weak
\* one); a Thread that enters its second critical section with a NodeRef to
\* a Node that has a handle by then has it absorbed in that way.
C13_Absorbs ==
    \A p \in Procs : \A n \in Nodes :
        LET h == refs[p].by_global_id[n]
            absorbed(r) ==
                refs'[p] = [refs[p] EXCEPT
                               !.by_handle[h].ref = NodeRef_absorb(@, r)]
        IN  (h # -1 /\ refs[p].by_handle[h] # NoInfo) =>
                /\ (refs'[p].by_handle[h].ref.sn + refs'[p].by_handle[h].ref.wn
                        > refs[p].by_handle[h].ref.sn + refs[p].by_handle[h].ref.wn)
                       => \/ absorbed(NodeRef_new(n, 1, 0))
                          \/ absorbed(NodeRef_new(n, 0, 1))
                /\ \A t \in ThreadsOf(p) :
                       (imp[t].node = n /\ imp'[t] = NoRef)
                           => absorbed(imp[t])

\* C13: an import of a Node that has a handle in the Process keeps that
\* handle, adds the counters of the new NodeRef to the stored one and
\* creates no second entry, also when two Threads import the same Node at
\* the same time.
C13_SameHandle == []C13_OneHandle /\ [][C13_Absorbs]_vars

\* Thread "a2" is between the two critical sections of its import of the
\* manager's Node while handle 0 has been created for that Node by "a1";
\* and "B" has been handed Node 1 twice.
C13_Witness ==
    /\ imp["a2"].node = 2
    /\ refs["A"].by_global_id[2] = 0
    /\ refs["A"].by_handle[0].ref.node = 2
    /\ refs["B"].by_global_id[1] = 1
    /\ refs["B"].by_handle[1].ref.s = 2

\* A step that makes h a key of by_handle of Process p: for h = 0 the Node
\* stored is the context manager's and no Transaction was created by the
\* step (the import is update_ref's, not a transaction's); otherwise every
\* id from 1 below h was a key already.
C14_NewKey ==
    \A p \in Procs : \A h \in Handles :
        (refs[p].by_handle[h] = NoInfo /\ refs'[p].by_handle[h] # NoInfo) =>
            IF h = 0
            THEN /\ mgr.node.node = refs'[p].by_handle[h].ref.node
                 /\ txns' = txns
            ELSE \A g \in 1..(h - 1) : refs[p].by_handle[g] # NoInfo

\* C14: handle 0 is allocated only by the import of the context manager in
\* update_ref; every other first import of a Node gets the lowest id from 1
\* that is not a key of by_handle.
C14_LowestHandle == [][C14_NewKey]_vars

\* "A" holds the manager's Node at handle 0; "B" was handed Node 1 (handle
\* 1) and its own Node 2 (handle 2), gave up handle 1 and was handed Node 1
\* again: it is at handle 1 once more, and "B" has no handle 0.
C14_Witness ==
    /\ refs["A"].by_handle[0].ref.node = 2
    /\ refs["B"].by_handle[0] = NoInfo
    /\ refs["B"].by_handle[1].ref = NodeRef_new(1, 1, 0)
    /\ refs["B"].by_handle[2].ref.node = 2
    /\ FreeIds(State) = {}

\* ------------------------------------------------------------- manager claims
\* The manager slot: every Thread may ask to become the context manager,
\* "b1" imports and drops handle 0, work is read, and both Processes may be
\* released.
NextManager ==
    \/ \E t \in Threads, n \in Nodes : SetContextMgr(t, n)
    \/ \E inc \in BOOLEAN : UpdateRef("b1", 0, inc, TRUE)
    \/ \E t \in Threads : Read(t, "ok")
    \/ \E p \in Procs : ReleaseMark(p)
    \/ \E p \in Procs : ReleaseRest(p)

SpecManager == Init /\ [][NextManager]_vars

\* What set_manager_node returns to Thread t asking for Node n.
Returned(t, n) ==
    Bind(get_node(State, ProcOf(t), n, TRUE, t), LAMBDA g :
        set_manager_node(g.s, g.ref, Euid(ProcOf(t))).res)

\* A BINDER_SET_CONTEXT_MGR step: EBUSY while a manager is installed; EPERM
\* with none installed and a recorded euid that is not the caller's; on
\* either the slot keeps its node and uid; otherwise the caller's Node and
\* euid are stored.
C15_Step ==
    \A t \in Threads : \A n \in Nodes :
        SetContextMgr(t, n) =>
            /\ mgr.node # NoRef => Returned(t, n) = "EBUSY"
            /\ (mgr.node = NoRef /\ mgr.uid # 0 /\ mgr.uid # Euid(ProcOf(t)))
                   => Returned(t, n) = "EPERM"
            /\ Returned(t, n) \in {"EBUSY", "EPERM"}
                   => /\ mgr' = mgr
                      /\ procs'[ProcOf(t)].is_manager
                             = procs[ProcOf(t)].is_manager
            /\ Returned(t, n) \notin {"EBUSY", "EPERM"}
                   => /\ mgr'.node.node = n
                      /\ mgr'.uid = Euid(ProcOf(t))
                      /\ mgr.uid \in {0, Euid(ProcOf(t))}

\* The recorded euid is never forgotten nor replaced by another one, whether
\* the manager is unset or its Process exits.
C15_UidKept == mgr.uid # 0 => mgr'.uid = mgr.uid

BufferRefs(n) == {i \in TxnIds : txns[i].buf /\ txns[i].node = n}

RECURSIVE SumOver(_, _, _)
SumOver(F(_), set, n) ==
    IF set = {} THEN 0
    ELSE LET x == CHOOSE y \in set : TRUE
         IN  (IF x[2].node = n THEN F(x[2]) ELSE 0)
                 + SumOver(F, set \ {x}, n)

\* Every NodeRef that is stored somewhere, tagged with its place.
StoredRefs ==
    {<<<<"handle", p, h>>, refs[p].by_handle[h].ref>> :
         p \in Procs, h \in Handles}
        \cup {<<<<"manager", "", 0>>, mgr.node>>}
        \cup {<<<<"import", t, 0>>, imp[t]>> : t \in Threads}

StrongSum(n) ==
    SumOver(LAMBDA r : r.sn, StoredRefs, n) + Cardinality(BufferRefs(n))
WeakSum(n) == SumOver(LAMBDA r : r.wn, StoredRefs, n)

\* C16: the strong (weak) count of every Node is the sum of the strong (weak)
\* node counts of the NodeRefs to it that exist.
C16_CountsAreSums ==
    \A n \in Nodes :
        /\ nodes[n].strong.count = StrongSum(n)
        /\ nodes[n].weak.count = WeakSum(n)

\* "B" has imported the manager's Node twice (the second NodeRef was
\* absorbed) and given one user count back, the NodeRef kept by the buffer
\* of a delivered transaction has been dropped, and Node 1 is held by the
\* manager slot and twice by the handle of "B".
C16_Witness ==
    /\ refs["B"].by_handle[0].ref = [node |-> 1, s |-> 1, w |-> 0,
                                     sn |-> 2, wn |-> 0]
    /\ \E i \in TxnIds : txns[i].st = "delivered" /\ ~txns[i].buf
    /\ mgr.node.sn = 1
    /\ nodes[1].strong.count = 3

\* The NodeRefs to Node n a Process can hold: a user count is zero exactly
\* when its node count is, and the NodeRef holds something.
CountPairs == {<<0, 0>>} \cup ((1..MaxCount) \X (1..MaxCount))
NodeRefsTo(n) ==
    {[node |-> n, s |-> ps[1], sn |-> ps[2], w |-> pw[1], wn |-> pw[2]] :
         ps \in CountPairs, pw \in CountPairs} \ {[NoRef EXCEPT !.node = n]}

\* Two NodeRefs to Node 1: a is the one at handle 1 of "B", b is held by
\* "b1", which is about to enter the second critical section of
\* insert_or_update_handle; the Node counts them both and its work item
\* waits in its owner's queue.
InitAbsorb ==
    \E a, b \in NodeRefsTo(1) :
        /\ procs = [p \in Procs |->
                       IF p = "A"
                       THEN [ProcessInner_new EXCEPT !.nodes = {1},
                                                    !.work = <<NItem(1)>>]
                       ELSE ProcessInner_new]
        /\ threads = [t \in Threads |-> InnerThread_new]
        /\ nodes = [n \in Nodes |->
                       IF n = 1
                       THEN [Node_new EXCEPT !.strong.count = a.sn + b.sn,
                                            !.weak.count = a.wn + b.wn]
                       ELSE Node_new]
        /\ txns = [i \in TxnIds |-> NoTxn]
        /\ refs = [p \in Procs |->
                      IF p = "B"
                      THEN [ProcessNodeRefs_new EXCEPT
                               !.by_handle[1] = NodeRefInfo_new(a),
                               !.by_global_id[1] = 1]
                      ELSE ProcessNodeRefs_new]
        /\ deaths = [d \in DeathIds |-> NoDeath]
        /\ mgr = [node |-> NoRef, uid |-> 0]
        /\ ev = NoEv
        /\ imp = [t \in Threads |-> IF t = "b1" THEN b ELSE NoRef]
        /\ contexts = ContextList_new

\* The held NodeRef is absorbed, "B" then gives up counts of the handle, and
\* the owner reads and acknowledges what it is told.
NextAbsorb ==
    \/ UpdateRefEnd("b1")
    \/ \E strong \in BOOLEAN : UpdateRef("b1", 1, FALSE, strong)
    \/ Read("a1", "ok")
    \/ IncRefDone("a1", 1)

SpecAbsorb == InitAbsorb /\ [][NextAbsorb]_vars

\* The NodeRef a Process would hold had it been created with the counters of
\* a and b together.
Summed(a, b) ==
    [node |-> a.node, s |-> a.s + b.s, w |-> a.w + b.w,
     sn |-> a.sn + b.sn, wn |-> a.wn + b.wn]

\* The step that absorbs the NodeRef b held by "b1" into the NodeRef a at
\* handle 1 and drops b: handle 1 then holds the NodeRef with the summed
\* counters and nothing else changed, the counts of the Node included, which
\* are what that one NodeRef accounts for.
C17_Step ==
    (imp["b1"] # NoRef /\ imp'["b1"] = NoRef) =>
        LET a == refs["B"].by_handle[1].ref
            b == imp["b1"]
        IN  /\ refs' = [refs EXCEPT !["B"].by_handle[1].ref = Summed(a, b)]
            /\ nodes' = nodes
            /\ procs' = procs
            /\ nodes'[1].strong.count = Summed(a, b).sn
            /\ nodes'[1].weak.count = Summed(a, b).wn

\* C17: absorbing NodeRef b into NodeRef a and dropping b leaves a and the
\* Node as if b had never been and a had been created with the summed
\* counters; the Node's counts stay the sums of what the NodeRefs hold.
C17_AbsorbThenDrop == [][C17_Step]_vars /\ []C16_CountsAreSums

\* b has been absorbed into a: the NodeRef at handle 1 holds two strong and
\* two weak user counts with node counts of three and two, which no single
\* NodeRef of a handle has before an absorb, and nothing is held by "b1".
C17_Witness ==
    /\ imp["b1"] = NoRef
    /\ refs["B"].by_handle[1].ref =
           [node |-> 1, s |-> 2, w |-> 2, sn |-> 3, wn |-> 2]
    /\ nodes[1].strong.count = 3
    /\ nodes[1].weak.count = 2

\* ------------------------------------------------------------- NodeDeath flags
\* C18 as stated: an aborted NodeDeath is cleared, and a NodeDeath that is
\* cleared and dead with no acknowledgement is on its subscriber's
\* delivered-deaths list.
C18_Flags ==
    \A d \in Deaths :
        /\ deaths[d].aborted => deaths[d].cleared
        /\ (deaths[d].cleared /\ deaths[d].dead
                /\ ~deaths[d].notification_done)
               => d \in Delivered(deaths[d].process)

\* C18 amended: an aborted NodeDeath is cleared; a NodeDeath that is cleared
\* and dead with no acknowledgement, and that was not aborted by the removal
\* of its handle, is on its subscriber's delivered-deaths list or still waits
\* in a work queue of the subscriber for the delivery that puts it there. An
\* aborted one is on neither.
C18_FlagsUnlessAborted ==
    \A d \in Deaths :
        /\ deaths[d].aborted => deaths[d].cleared
        /\ (deaths[d].cleared /\ deaths[d].dead
                /\ ~deaths[d].notification_done /\ ~deaths[d].aborted)
               => d \in Delivered(deaths[d].process) \/ Pending(d)
        /\ deaths[d].aborted => d \notin Delivered(deaths[d].process)

\* A NodeDeath was delivered as BR_DEAD_BINDER and then cleared with no
\* acknowledgement: it is on the delivered list.
C18_Witness ==
    \E d \in Deaths :
        /\ deaths[d].cleared /\ deaths[d].dead
        /\ ~deaths[d].notification_done /\ ~deaths[d].aborted
        /\ deaths[d].reader = "b1"
        /\ d \in Delivered("B")

\* A NodeDeath was dead and delivered when the removal of its handle
\* aborted it: it is cleared and off the delivered list.
C18_WitnessAborted ==
    \E d \in Deaths :
        /\ deaths[d].aborted /\ deaths[d].cleared /\ deaths[d].dead
        /\ ~deaths[d].notification_done
        /\ deaths[d].reader = "b1"
        /\ d \notin Delivered("B")

\* ------------------------------------------------------------- set_cleared twice
\* C19 as stated: set_cleared(true) on a NodeDeath that is cleared already
\* changes none of dead, cleared, notification_done and aborted, leaves the
\* subscriber list of the Node alone and returns false.
C19_Step ==
    \A d \in DeathIds :
        NodeDeath_set_cleared(d, TRUE) =>
            /\ deaths' = deaths
            /\ nodes' = nodes
            /\ ~set_cleared(State, d, TRUE).queue

C19_StepAborts ==
    \A d \in DeathIds :
        NodeDeath_set_cleared(d, TRUE) =>
            /\ deaths' = [deaths EXCEPT ![d].aborted = TRUE]
            /\ nodes' = nodes
            /\ ~InSeq(d, nodes[deaths[d].node].death_list)
            /\ set_cleared(State, d, TRUE).queue
                   = (~deaths[d].dead \/ deaths[d].notification_done)

NextPublish ==
    \/ /\ mgr.node = NoRef
       /\ SetContextMgr("a1", 1)
    \/ \E inc \in BOOLEAN, strong \in BOOLEAN : UpdateRef("b1", 0, inc, strong)
    \/ /\ MoreCalls("b1")
       /\ Transact("b1", 0, FALSE, 0)
    \/ Reply("a1", FALSE)
    \/ \E t \in {"a1", "b1"} : Read(t, "ok")
    \/ \E t \in {"a1", "b1"}, i \in TxnIds : FreeBuffer(t, i)

SpecPublish == Init /\ [][NextPublish]_vars

\* The step writes BR_TRANSACTION for a call to the manager's Node.
ReadsCall == \E i \in TxnIds : InSeq(Cmd("BR_TRANSACTION", i), ev'.cmds)

\* C20 as stated: when "A" is given the BR_TRANSACTION of the call to
\* handle 0, BR_ACQUIRE for Node 1 has been written to it before.
C20_AcquireFirst == [][ReadsCall => nodes[1].told_strong]_vars

\* No BR_ACQUIRE or BR_INCREFS is written for Node 1, the manager's Node.
C20_NeverTold ==
    /\ ~Wrote("BR_ACQUIRE", 1) /\ ~Wrote("BR_INCREFS", 1)
    /\ ~nodes[1].told_strong /\ ~nodes[1].told_weak

\* C20 amended: "A" is given the BR_TRANSACTION of the call to handle 0
\* with no BR_ACQUIRE for Node 1 written to it before: set_as_manager forces
\* has_count, so no BR_ACQUIRE is written for the manager's Node.
C20_TransactionUnannounced ==
    /\ []C20_NeverTold
    /\ [][ReadsCall => /\ ev'.t \in ThreadsOf("A")
                       /\ ~nodes[1].told_strong
                       /\ ~nodes'[1].told_strong]_vars

\* "b1" holds handle 0 and "a1" has just read the BR_TRANSACTION of its
\* call, with no BR_ACQUIRE written for Node 1.
C20_Witness ==
    /\ ev.t = "a1"
    /\ \E i \in TxnIds :
           /\ ev.cmds = <<Cmd("BR_TRANSACTION", i)>>
           /\ txns[i].from = "b1" /\ txns[i].node = 1
    /\ refs["B"].by_handle[0] # NoInfo
    /\ ~nodes[1].told_strong

\* ------------------------------------------------------------- failed construction
\* Transactions that cannot be built: "A" is the context manager, "b1"
\* sends calls and oneway transactions to handle 0, with file descriptors
\* (which Node 1 accepts) or without, "a1" reads and replies, buffers are
\* freed, and any construction may run out of memory.
NextNoMem ==
    \/ /\ mgr.node = NoRef
       /\ SetContextMgr("a1", 1)
    \/ /\ MoreCalls("b1")
       /\ Transact("b1", 0, FALSE, 0)
    \/ /\ MoreCalls("b1")
       /\ TransactNoMem("b1", 0, FALSE, 0)
    \/ Oneway("b1", 0, FALSE, 0)
    \/ OnewayNoMem("b1", 0, FALSE, 0)
    \/ Reply("a1", FALSE)
    \/ ReplyNoMem("a1", FALSE)
    \/ \E t \in {"a1", "b1"} : Read(t, "ok")
    \/ \E t \in {"a1", "b1"}, i \in TxnIds : FreeBuffer(t, i)

SpecNoMem == Init /\ [][NextNoMem]_vars

LkRefs(p) == <<"node_refs", p, 0>>
LkInner(p) == <<"inner", p, 0>>
LkThread(t) == <<"thread", t, 0>>
LkDeath(d) == <<"death", "", d>>
LkManager == <<"manager", "", 0>>

\* The lock and unlock events of a critical section of lock l around the
\* events in it.
Hold(l, in) == <<[acq |-> TRUE, l |-> l]>> \o in \o <<[acq |-> FALSE, l |-> l]>>

\* The drop of the last reference to work item w: <Transaction as
\* Drop>::drop calls buffer_get on the recipient, which takes its inner
\* lock. A call is also referenced by its sender's stack, a oneway
\* transaction by nothing but the queue it was to be pushed to.
LkDropWork(S, w) ==
    IF w.k = "T" /\ IsOneway(S, w.i) /\ S.txns[w.i].free_alloc
    THEN Hold(LkInner(S.txns[w.i].to), <<>>)
    ELSE <<>>

\* ProcessInner::push_work, called with the inner lock of p held: the item
\* goes to a ready Thread under that Thread's lock; it is dropped before the
\* return if the Thread or the Process is dead.
LkPushWork(S, p, w) ==
    LET P == S.procs[p] IN
    IF P.ready_threads # <<>>
    THEN Hold(LkThread(Head(P.ready_threads)), <<>>)
             \o (IF S.threads[Head(P.ready_threads)].is_dead
                 THEN LkDropWork(S, w) ELSE <<>>)
    ELSE IF P.is_dead THEN LkDropWork(S, w)
    ELSE <<>>

\* Node::update_refcount: the owner's inner lock, and the push of the Node
\* if update_refcount_locked asks for it.
LkUpdateRefcount(S, n, inc, count, strong) ==
    Hold(LkInner(Owner(n)),
         IF update_refcount_locked(S, n, inc, strong, count).push
         THEN LkPushWork(S, Owner(n), NItem(n)) ELSE <<>>)

\* <NodeRef as Drop>::drop
LkNodeRefDrop(S, r) ==
    (IF r.sn > 0 THEN LkUpdateRefcount(S, r.node, FALSE, r.sn, TRUE) ELSE <<>>)
        \o (IF r.wn > 0 THEN LkUpdateRefcount(S, r.node, FALSE, r.wn, FALSE)
            ELSE <<>>)

\* Context::get_manager_node: NodeRef::clone runs under the manager lock.
LkGetManagerNode(S, strong) ==
    Hold(LkManager,
         IF S.mgr.node = NoRef \/ (strong /\ S.mgr.node.s = 0) THEN <<>>
         ELSE LkUpdateRefcount(S, S.mgr.node.node, TRUE, 1, strong))

\* Process::get_node_from_handle: NodeRef::clone runs under node_refs.
LkGetNodeFromHandle(S, p, h, strong) ==
    LET info == S.refs[p].by_handle[h] IN
    Hold(LkRefs(p),
         IF info = NoInfo \/ (strong /\ info.ref.s = 0) THEN <<>>
         ELSE LkUpdateRefcount(S, info.ref.node, TRUE, 1, strong))

\* Process::insert_or_update_handle: node_refs for the first lookup, and
\* again for the second, with inner taken inside it for the is_dead test.
LkInsertOrUpdateHandle(S, p, r) ==
    IF S.refs[p].by_global_id[r.node] # -1 THEN Hold(LkRefs(p), <<>>)
    ELSE Hold(LkRefs(p), <<>>) \o Hold(LkRefs(p), Hold(LkInner(p), <<>>))
             \o (IF S.procs[p].is_dead THEN LkNodeRefDrop(S, r) ELSE <<>>)

\* NodeDeath::set_cleared: the NodeDeath's lock is released before the
\* owner's inner lock is taken.
LkSetCleared(S, d) ==
    Hold(LkDeath(d), <<>>)
        \o (IF ~S.deaths[d].dead
            THEN Hold(LkInner(Owner(S.deaths[d].node)), <<>>) ELSE <<>>)

\* Thread::push_work_if_looper: the Thread's lock, and the Process queue if
\* the Thread is not a looper.
LkPushWorkIfLooper(S, t, w) ==
    Hold(LkThread(t), <<>>)
        \o (IF S.threads[t].looper /\ ~S.threads[t].is_dead THEN <<>>
            ELSE Hold(LkInner(ProcOf(t)), LkPushWork(S, ProcOf(t), w)))

\* Process::update_ref
LkUpdateRef(S, p, h, inc, strong) ==
    LET info == S.refs[p].by_handle[h]
        r == info.ref
        count == IF strong THEN r.s ELSE r.w
        node_count == IF strong THEN r.sn ELSE r.wn
        u == NodeRef_update(S, r, inc, strong)
        general ==
            Hold(LkRefs(p),
                 IF info = NoInfo \/ (strong /\ r.s = 0) THEN <<>>
                 ELSE (IF inc /\ count = 0
                       THEN LkUpdateRefcount(S, r.node, TRUE, 1, strong)
                       ELSE IF ~inc /\ count = 1
                       THEN LkUpdateRefcount(S, r.node, FALSE, node_count,
                                             strong)
                       ELSE <<>>)
                      \o (IF u.remove /\ info.death # 0
                          THEN LkSetCleared(u.s, info.death)
                                   \o Hold(LkInner(p), <<>>)
                          ELSE <<>>))
        m == get_manager_node(S, strong)
    IN  IF inc /\ h = 0
        THEN LkGetManagerNode(S, strong)
                 \o (IF ~m.ok THEN general
                     ELSE IF Owner(m.ref.node) = p THEN LkNodeRefDrop(m.s, m.ref)
                     ELSE LkInsertOrUpdateHandle(m.s, p, m.ref))
        ELSE general

\* Process::request_death: node_refs is held to the end.
LkRequestDeath(S, p, h) ==
    LET info == S.refs[p].by_handle[h] IN
    Hold(LkRefs(p),
         IF info = NoInfo \/ info.death # 0 THEN <<>>
         ELSE Hold(LkInner(Owner(info.ref.node)), <<>>)
                  \o (IF S.procs[Owner(info.ref.node)].is_dead
                      THEN Hold(LkInner(p), LkPushWork(S, p, DItem(NewDeath(S))))
                      ELSE <<>>))

\* Process::clear_death: node_refs is held to the end.
LkClearDeath(S, t, h, cookie) ==
    LET p == ProcOf(t)
        info == S.refs[p].by_handle[h]
        d == info.death
    IN  Hold(LkRefs(p),
             IF info = NoInfo \/ d = 0 THEN <<>>
             ELSE IF S.deaths[d].cookie # cookie THEN <<>>
             ELSE LkSetCleared(S, d)
                      \o (IF set_cleared(S, d, FALSE).queue
                          THEN LkPushWorkIfLooper(S, t, DItem(d)) ELSE <<>>))

\* Process::dead_binder_done: the guard of self.inner.lock() is a temporary
\* of the if-let scrutinee, so the inner lock is held until the end of the
\* body, around set_notification_done.
LkDeadBinderDone(S, t, cookie) ==
    LET p == ProcOf(t)
        d == pull_delivered_death(S, p, cookie)
    IN  Hold(LkInner(p),
             IF d = 0 THEN <<>>
             ELSE Hold(LkDeath(d), <<>>)
                      \o (IF S.deaths[d].cleared
                          THEN LkPushWorkIfLooper(S, t, DItem(d)) ELSE <<>>))

\* Process::inc_ref_done
LkIncRefDone(S, p, n) ==
    Hold(LkInner(p),
         IF n \in S.procs[p].nodes /\ inc_ref_done_locked(S, n).push
         THEN LkPushWork(S, p, NItem(n)) ELSE <<>>)

\* Node::submit_oneway of Transaction i, from Transaction::submit.
LkSubmitOneway(S, n, i) ==
    Hold(LkInner(Owner(n)),
         IF S.nodes[n].has_pending_oneway_todo THEN <<>>
         ELSE LkPushWork(S, Owner(n), TItem(i)))

\* Thread::oneway_transaction: the lookup of the target, buffer_alloc and
\* buffer_make_freeable in the recipient, the completion pushed to the
\* sender and the submission.
LkOneway(S, t, h, files, obj) ==
    LET i == NewId(S)
        r == get_transaction_node(S, ProcOf(t), h)
        n == Transaction_new(r.s, i, r.ref, 0, t, "oneway", files, obj)
        to == Owner(r.ref.node)
    IN  (IF h = 0 THEN LkGetManagerNode(S, TRUE)
         ELSE LkGetNodeFromHandle(S, ProcOf(t), h, TRUE))
        \o (IF ~r.ok THEN <<>>
            ELSE Hold(LkInner(to), <<>>)
                     \o (IF n.res # "ok" THEN LkNodeRefDrop(r.s, r.ref)
                         ELSE Hold(LkInner(to), <<>>) \o Hold(LkThread(t), <<>>)
                                  \o LkSubmitOneway(
                                         [n.s EXCEPT !.txns[i].st = "queued"],
                                         r.ref.node, i)))

\* The rank of a lock in the mandatory order.
LkRank(l) ==
    CASE l[1] = "manager" -> 0
      [] l[1] = "node_refs" -> 1
      [] l[1] = "inner" -> 2
      [] l[1] = "thread" -> 3
      [] l[1] = "death" -> 4

\* Lock l may be taken while h is held: h comes earlier in the order, or
\* both are inner locks, of two different Processes.
LkBefore(h, l) ==
    \/ LkRank(h) < LkRank(l)
    \/ h[1] = "inner" /\ l[1] = "inner" /\ h[2] # l[2]

\* Every lock of the events tr is taken in order, starting with held held.
RECURSIVE LkOrdered(_, _)
LkOrdered(tr, held) ==
    IF tr = <<>> THEN TRUE
    ELSE IF Head(tr).acq
    THEN /\ \A h \in held : LkBefore(h, Head(tr).l)
         /\ LkOrdered(Tail(tr), held \cup {Head(tr).l})
    ELSE LkOrdered(Tail(tr), held \ {Head(tr).l})

\* Reference counts, death notifications and oneway transactions around the
\* release of the manager: "A" is the context manager, "b1" imports and
\* drops handle 0, requests, clears and acknowledges death notifications and
\* sends oneway transactions to handle 0, "a1" waits for work, both read,
\* and "A" is released.
NextLock ==
    \/ /\ mgr.node = NoRef
       /\ SetContextMgr("a1", 1)
    \/ \E inc \in BOOLEAN : UpdateRef("b1", 0, inc, TRUE)
    \/ \E c \in Cookies : RequestDeath("b1", 0, c)
    \/ \E c \in Cookies : ClearDeath("b1", 0, c)
    \/ \E c \in Cookies : DeadBinderDone("b1", c)
    \/ EnterLooper("b1")
    \/ /\ FreeIds(State) = TxnIds
       /\ Oneway("b1", 0, FALSE, 0)
    \/ Register("a1")
    \/ \E t \in {"a1", "b1"} : Read(t, "ok")
    \/ ReleaseMark("A")
    \/ ReleaseRest("A")

SpecLock == Init /\ [][NextLock]_vars

\* The locks of each command are taken in order.
C22_Step ==
    /\ \A t \in Threads, h \in Handles, inc \in BOOLEAN, strong \in BOOLEAN :
           UpdateRef(t, h, inc, strong) =>
               LkOrdered(LkUpdateRef(State, ProcOf(t), h, inc, strong), {})
    /\ \A t \in Threads, h \in Handles, c \in Cookies :
           RequestDeath(t, h, c) =>
               LkOrdered(LkRequestDeath(State, ProcOf(t), h), {})
    /\ \A t \in Threads, h \in Handles, c \in Cookies :
           ClearDeath(t, h, c) => LkOrdered(LkClearDeath(State, t, h, c), {})
    /\ \A t \in Threads, c \in Cookies :
           DeadBinderDone(t, c) => LkOrdered(LkDeadBinderDone(State, t, c), {})
    /\ \A t \in Threads, n \in Nodes :
           IncRefDone(t, n) => LkOrdered(LkIncRefDone(State, ProcOf(t), n), {})
    /\ \A t \in Threads, h \in Handles :
           Oneway(t, h, FALSE, 0) =>
               LkOrdered(LkOneway(State, t, h, FALSE, 0), {})

\* C22: in every command a lock is taken only while the locks held come
\* before it in the order node_refs, Process inner, Thread inner, with
\* NodeDeath inner last (nothing is taken while it is held) and two inner
\* locks held together only if they are of different Processes; so no
\* Thread waits for a lock it holds itself or in a cycle.
C22_LockOrder == [][C22_Step]_vars

\* ------------------------------------------------------------- oneway flag
\* The oneway Transactions to Node n on the work queue of the owner or of one
\* of its Threads.
OnewaysInWork(n) ==
    {i \in OnewaysTo(n) :
        \/ InSeq(TItem(i), procs[Owner(n)].work)
        \/ \E t \in ThreadsOf(Owner(n)) : InSeq(TItem(i), threads[t].work)}

\* C23 as stated: the oneway queue of a Node is empty exactly when
\* has_pending_oneway_todo is false or exactly one oneway transaction to the
\* Node is on a work queue of the owner.
C23_EmptyIff ==
    \A n \in Nodes :
        nodes[n].oneway_todo = <<>>
            <=> \/ ~nodes[n].has_pending_oneway_todo
                \/ Cardinality(OnewaysInWork(n)) = 1

\* C23: when has_pending_oneway_todo of a Node is false its oneway queue is
\* empty; a transaction waits in the queue only while the flag is set.
C23_EmptyUnlessPending ==
    \A n \in Nodes :
        ~nodes[n].has_pending_oneway_todo => nodes[n].oneway_todo = <<>>

\* One transaction is on a work queue of the live owner and two wait in the
\* Node's queue.
C23_Witness ==
    /\ ~procs["A"].is_dead
    /\ nodes[1].has_pending_oneway_todo
    /\ Cardinality(OnewaysInWork(1)) = 1
    /\ Len(nodes[1].oneway_todo) = 2

\* The transaction in flight has been read and no other was sent: the flag
\* is set, the Node's queue is empty and no work queue holds a transaction.
C23_WitnessRead ==
    /\ ~procs["A"].is_dead
    /\ nodes[1].has_pending_oneway_todo
    /\ OnewaysInWork(1) = {}
    /\ nodes[1].oneway_todo = <<>>

\* ------------------------------------------------------------- stacks
\* Nested calls: "A" becomes the context manager, "b1" gives it a handle to
\* B's Node 2 in a oneway transaction, "a1" calls through that handle, also
\* while it waits for a reply, "b1" calls handle 0, one call nested in the
\* other, and everybody reads and replies.
NextStack ==
    \/ /\ mgr.node = NoRef
       /\ SetContextMgr("a1", 1)
    \/ /\ FreeIds(State) = TxnIds
       /\ Oneway("b1", 0, FALSE, 2)
    \/ /\ Cardinality({i \in TxnIds : txns[i].from = "a1"}) <= MaxCalls
       /\ Transact("a1", 1, FALSE, 0)
    \/ /\ MoreCalls("b1")
       /\ Transact("b1", 0, FALSE, 0)
    \/ \E t \in Threads : Reply(t, FALSE)
    \/ \E t \in Threads : Read(t, "ok")

SpecStack == Init /\ [][NextStack]_vars

\* C24 as stated: every frame of the stack of a Thread is directed at the
\* Thread's Process.
C24_ToOwnProcess ==
    \A t \in Threads, i \in TxnIds :
        OnStack(t, i) => txns[i].to = ProcOf(t)

\* C24: the current transaction of a Thread was sent by the Thread or is
\* directed at the Thread's Process, and each frame below, via stack_next, is
\* directed at the Process of the sender of the frame above it.
C24_StackFrames ==
    \A t \in Threads :
        LET c == ChainOf(txns, threads[t].cur) IN
        /\ c # <<>> => \/ txns[c[1]].from = t
                       \/ txns[c[1]].to = ProcOf(t)
        /\ \A k \in 1..(Len(c) - 1) :
               txns[c[k + 1]].to = ProcOf(txns[c[k]].from)

\* "a1" waits for the reply to its call to "B" and has taken the nested call
\* of "b1": its stack is that call, directed at "A", on top of its own,
\* directed at "B"; the stack of "b1" is the same two frames.
C24_Witness ==
    LET c == ChainOf(txns, threads["a1"].cur) IN
    /\ Len(c) = 2
    /\ txns[c[1]].from = "b1" /\ txns[c[1]].to = "A"
    /\ txns[c[2]].from = "a1" /\ txns[c[2]].to = "B"
    /\ threads["b1"].cur = c[1]

\* ------------------------------------------------------------- registry claims
\* Contexts are made under any of the names and deregistered, once or twice.
NextContext ==
    \/ \E name \in ContextNames : ContextNew(name)
    \/ \E c \in 1..MaxContexts : ContextDeregister(c)

SpecContext == Init /\ [][NextContext]_vars

\* C25: no two Contexts on the list of the registry have the same name.
C25_OnePerName ==
    \A i, j \in 1..Len(contexts.list) :
        i # j => contexts.list[i].name # contexts.list[j].name

\* ------------------------------------------------------------- count updates
\* The CountState of Node n that an update is applied to.
CountStateOf(n, strong) == IF strong THEN nodes[n].strong ELSE nodes[n].weak

\* The update takes the count from zero to a positive value, by an
\* increment, or from a positive value to zero, by a decrement.
Crosses(n, inc, strong, count) ==
    LET st == CountStateOf(n, strong) IN
    IF inc THEN st.count = 0 ELSE st.count > 0 /\ st.count = count

\* C26 as stated: an update asks for the Node to be queued exactly when it
\* crosses between zero and a positive count in the direction that toggles
\* has_count.
C26_IffCrosses ==
    \A n \in Nodes, inc \in BOOLEAN, strong \in BOOLEAN, count \in 1..MaxCount :
        update_refcount_locked(State, n, inc, strong, count).push
            <=> /\ Crosses(n, inc, strong, count)
                /\ CountStateOf(n, strong).has_count = ~inc

\* C26: an increment asks for the Node to be queued exactly when has_count
\* is false, whatever the count was; a decrement exactly when it takes a
\* positive count to zero and has_count is true.
C26_IncUnlessTold ==
    \A n \in Nodes, inc \in BOOLEAN, strong \in BOOLEAN, count \in 1..MaxCount :
        update_refcount_locked(State, n, inc, strong, count).push
            <=> IF inc THEN ~CountStateOf(n, strong).has_count
                ELSE /\ Crosses(n, inc, strong, count)
                     /\ CountStateOf(n, strong).has_count

\* Node 2 has been given a second strong count before its owner was told of
\* the first: the count is above one, has_count is false, and the Node is on
\* the queue of "b1".
C26_Witness ==
    /\ nodes[2].strong.count > 1
    /\ ~nodes[2].strong.has_count
    /\ InSeq(NItem(2), threads["b1"].work)

\* ------------------------------------------------------------- deferred drops
\* Counts that come and go: "A" becomes the context manager, "b1" sends it
\* B's Node 2 in a oneway transaction, "a1" changes the counts of its handle
\* to Node 2 and reads and frees the transaction, and "b1" reads the Node
\* work and acknowledges it.
NextAck ==
    \/ SetContextMgr("a1", 1)
    \/ /\ FreeIds(State) = TxnIds
       /\ Oneway("b1", 0, FALSE, 2)
    \/ \E inc \in BOOLEAN, strong \in BOOLEAN : UpdateRef("a1", 1, inc, strong)
    \/ IncRefDone("b1", 2)
    \/ \E t \in {"a1", "b1"} : Read(t, "ok")
    \/ \E i \in TxnIds : FreeBuffer("a1", i)

\* The owner of Node 2 keeps reading and acknowledges what it is told.
SpecAck ==
    /\ Init /\ [][NextAck]_vars
    /\ WF_vars(Read("b1", "ok"))
    /\ WF_vars(IncRefDone("b1", 2))

\* The strong / weak count of Node n is zero and the owner still believes it
\* holds one: a BR_RELEASE / BR_DECREFS is due.
DropStrongDue(n) == nodes[n].strong.count = 0 /\ nodes[n].strong.has_count
DropWeakDue(n) ==
    /\ nodes[n].strong.count = 0 /\ nodes[n].weak.count = 0
    /\ nodes[n].weak.has_count

\* The acknowledgement that ends the last outstanding acquisition of a Node
\* with a decrement due puts the Node on a queue of its owner.
C27_Requeued ==
    \A n \in Nodes :
        (/\ nodes[n].active_inc_refs = 1 /\ nodes'[n].active_inc_refs = 0
         /\ DropStrongDue(n) \/ DropWeakDue(n))
            => \/ InSeq(NItem(n), procs'[Owner(n)].work)
               \/ \E t \in ThreadsOf(Owner(n)) : InSeq(NItem(n), threads'[t].work)

\* The delivery of a Node with no outstanding acquisition writes the
\* decrements that are due and clears has_count for each.
C27_Emitted ==
    \A n \in Nodes :
        (/\ Queued(State, NItem(n))
         /\ \A t \in Threads : ~InSeq(NItem(n), threads'[t].work)
         /\ \A p \in Procs : ~InSeq(NItem(n), procs'[p].work)
         /\ nodes[n].active_inc_refs = 0)
            => /\ DropStrongDue(n) =>
                      /\ InSeq(Cmd("BR_RELEASE", n), ev'.cmds)
                      /\ ~nodes'[n].strong.has_count
               /\ DropWeakDue(n) =>
                      /\ InSeq(Cmd("BR_DECREFS", n), ev'.cmds)
                      /\ ~nodes'[n].weak.has_count

C27_WitnessEmitted ==
    /\ Wrote("BR_RELEASE", 2)
    /\ ~nodes[2].strong.has_count
    /\ nodes[2].active_inc_refs = 0
    /\ nodes[2].told_weak

\* ------------------------------------------------------------- Node delivery
\* The step delivers Node n: the Node leaves the queue it was on.
NodeDelivered(n) ==
    /\ Queued(State, NItem(n))
    /\ \A t \in Threads : ~InSeq(NItem(n), threads'[t].work)
    /\ \A p \in Procs : ~InSeq(NItem(n), procs'[p].work)

\* The conditions of the delivery rule on the state before the delivery.
HoldsWeak(n) == nodes[n].strong.count > 0 \/ nodes[n].weak.count > 0
DueIncrefs(n) == HoldsWeak(n) /\ ~nodes[n].weak.has_count
DueAcquire(n) == nodes[n].strong.count > 0 /\ ~nodes[n].strong.has_count
NoActiveIncRefs(n) ==
    nodes[n].active_inc_refs = 0 /\ ~DueIncrefs(n) /\ ~DueAcquire(n)
DueRelease(n) ==
    /\ NoActiveIncRefs(n)
    /\ nodes[n].strong.count = 0 /\ nodes[n].strong.has_count
DueDecrefs(n) ==
    NoActiveIncRefs(n) /\ ~HoldsWeak(n) /\ nodes[n].weak.has_count

\* Command c about Node n if it is due, nothing otherwise.
IfDue(due, c, n) == IF due THEN <<Cmd(c, n)>> ELSE <<>>

\* A delivery of a Node writes BR_INCREFS, BR_ACQUIRE, BR_RELEASE, BR_DECREFS,
\* in this order, each once if its condition holds before the delivery and
\* not otherwise.
C28_Step ==
    \A n \in Nodes :
        NodeDelivered(n) =>
            ev'.cmds = IfDue(DueIncrefs(n), "BR_INCREFS", n)
                           \o IfDue(DueAcquire(n), "BR_ACQUIRE", n)
                           \o IfDue(DueRelease(n), "BR_RELEASE", n)
                           \o IfDue(DueDecrefs(n), "BR_DECREFS", n)

\* In what a delivery writes, the command for the weak count comes before
\* the command for the strong count in each group: BR_INCREFS before
\* BR_ACQUIRE, BR_DECREFS before BR_RELEASE.
C28_WeakFirst ==
    \A n \in Nodes :
        NodeDelivered(n) =>
            \A k, l \in 1..Len(ev'.cmds) :
                (/\ ev'.cmds[k].c \in {"BR_ACQUIRE", "BR_RELEASE"}
                 /\ ev'.cmds[l].c = IF ev'.cmds[k].c = "BR_ACQUIRE"
                                    THEN "BR_INCREFS" ELSE "BR_DECREFS")
                    => l < k

C28_WitnessAcquire ==
    ev.cmds = <<Cmd("BR_INCREFS", 2), Cmd("BR_ACQUIRE", 2)>>

\* ------------------------------------------------------------- NodeRef::update
\* NodeRef::update on the handle "A" has to B's Node 2: "A" becomes the
\* context manager, "b1" sends it Node 2 in a oneway transaction, "a1"
\* increments and decrements the strong and the weak count of its handle,
\* and "b1" reads the Node work and acknowledges it.
NextUpdate ==
    \/ /\ mgr.node = NoRef
       /\ SetContextMgr("a1", 1)
    \/ /\ FreeIds(State) = TxnIds
       /\ ev # Underflowed
       /\ Oneway("b1", 0, FALSE, 2)
    \/ \E inc \in BOOLEAN, strong \in BOOLEAN, o \in {"ok", "panic", "wrap"} :
           NodeRefUpdate("a1", 1, inc, strong, o)
    \/ /\ ev # Underflowed
       /\ IncRefDone("b1", 2)
    \/ /\ ev # Underflowed
       /\ \E t \in {"a1", "b1"} : Read(t, "ok")

SpecUpdate == Init /\ [][NextUpdate]_vars

\* What a step that is NodeRef::update(inc, strong) on handle h of the
\* Process of t does: the selected counter moves by one and stays a count;
\* on 0 -> 1 the Node's CountState gains 1 and the node count becomes 1; on
\* 1 -> 0 the Node's CountState loses the node count, which becomes 0; and
\* the entry is removed exactly when both counters are zero after the call.
C29_Updated(t, h, inc, strong) ==
    LET p == ProcOf(t)
        r == refs[p].by_handle[h].ref
        gone == refs'[p].by_handle[h] = NoInfo
        r2 == IF gone THEN NodeRef_update(State, r, inc, strong).ref
              ELSE refs'[p].by_handle[h].ref
        c == IF strong THEN r.s ELSE r.w
        c2 == IF strong THEN r2.s ELSE r2.w
        nc == IF strong THEN r.sn ELSE r.wn
        nc2 == IF strong THEN r2.sn ELSE r2.wn
        N == IF strong THEN nodes[r.node].strong.count
             ELSE nodes[r.node].weak.count
        N2 == IF strong THEN nodes'[r.node].strong.count
              ELSE nodes'[r.node].weak.count
    IN  /\ c2 = (IF inc THEN c + 1 ELSE c - 1)
        /\ c2 >= 0
        /\ (c = 0 /\ c2 = 1) => (N2 = N + 1 /\ nc2 = 1)
        /\ (c = 1 /\ c2 = 0) => (N2 = N - nc /\ nc2 = 0)
        /\ gone <=> (r2.s = 0 /\ r2.w = 0)

C29_Step ==
    \A inc \in BOOLEAN, strong \in BOOLEAN, o \in {"ok", "panic", "wrap"} :
        NodeRefUpdate("a1", 1, inc, strong, o) =>
            C29_Updated("a1", 1, inc, strong)

\* C29: NodeRef::update moves the selected counter by one; a 0 -> 1
\* transition adds 1 to the Node's CountState and sets the node count to 1; a
\* 1 -> 0 transition takes the whole node count from the Node and zeroes it;
\* and the result is true exactly when both counters are zero after the call.
C29_UpdateByOne == [][C29_Step]_vars


\* ------------------------------------------------------------- C30
\* Process A subscribes to the death of B's Node through handle 1, which a
\* oneway call of B to the manager gives it; a1 reads, and its delivery of a
\* NodeDeath is in two steps, with the commands of a2, which is no looper,
\* and the release of B between them.
NextAbort ==
    \/ /\ mgr.node = NoRef
       /\ SetContextMgr("a1", 1)
    \/ /\ FreeIds(State) = TxnIds
       /\ Oneway("b1", 0, FALSE, 2)
    \/ RequestDeath("a2", 1, 1)
    \/ \E c \in Cookies : ClearDeath("a2", 1, c)
    \/ DeadBinderDone("a2", 1)
    \/ UpdateRef("a2", 1, FALSE, TRUE)
    \/ /\ NextWork("a1").k # "D"
       /\ Read("a1", "ok")
    \/ ReadDeathBegin("a1")
    \/ ReadDeathEnd("a1")
    \/ ReleaseMark("B")
    \/ ReleaseRest("B")

SpecAbort == Init /\ [][NextAbort]_vars

\* The delivered-deaths list of the subscriber of NodeDeath d.
DeliveredOf(d) == procs[deaths[d].process].delivered_deaths

\* The step leaves every delivered-deaths list as it is.
C30_NoneAppended ==
    \A p \in Procs : procs'[p].delivered_deaths = procs[p].delivered_deaths

\* The step leaves NodeDeath d as it is: not appended, and neither command
\* written for it.
C30_Dropped(d) ==
    /\ C30_NoneAppended
    /\ deaths'[d].reader = deaths[d].reader
    /\ deaths'[d].clear_done = deaths[d].clear_done

\* The three cases of the delivery of NodeDeath d by a1, on the step that
\* ends it; cleared, dead and notification_done are as do_work read them in
\* its first critical section.
C30_Rule(d) ==
    LET D == deaths[d] IN
    IF D.aborted
    THEN ev' = Ev("a1", <<>>, TRUE) /\ C30_Dropped(d)
    ELSE IF D.done
    THEN /\ ev' = Ev("a1", <<Cmd("BR_CLEAR_DEATH_NOTIFICATION_DONE",
                                   D.cookie)>>, TRUE)
         /\ C30_NoneAppended
    ELSE /\ ev' = Ev("a1", <<Cmd("BR_DEAD_BINDER", D.cookie)>>, FALSE)
         /\ procs'[D.process].delivered_deaths =
                Append(procs[D.process].delivered_deaths, d)

C30_Step ==
    /\ \A d \in DeathIds :
           (ReadDeathBegin("a1") /\ NextWork("a1").i = d)
               => IF deaths[d].aborted
                  THEN ev' = Ev("a1", <<>>, TRUE) /\ C30_Dropped(d)
                  ELSE /\ deaths'[d].reading = "a1"
                       /\ deaths'[d].done =
                              (/\ deaths[d].cleared
                               /\ (~deaths[d].dead
                                      \/ deaths[d].notification_done))
    /\ \A d \in DeathIds :
           (ReadDeathEnd("a1") /\ deaths[d].reading = "a1") => C30_Rule(d)
    /\ \A d \in DeathIds :
           (deaths[d].aborted /\ ~InSeq(d, DeliveredOf(d)))
               => (/\ ~InSeq(d, procs'[deaths[d].process].delivered_deaths)
                   /\ deaths'[d].reader = deaths[d].reader)

C30_WitnessCleared ==
    \E d \in DeathIds : deaths[d].clear_done /\ deaths[d].begun

\* C30 witness: a delivery ended with BR_DEAD_BINDER.
C30_WitnessDead ==
    \E d \in DeathIds : deaths[d].reader = "a1" /\ InSeq(d, DeliveredOf(d))

\* ------------------------------------------------------------- C31
\* The Threads of the manager A register as ready and read; B takes and
\* drops references to the manager's Node, the drop of its last weak
\* reference pushing the Node to A.
NextRefuse ==
    \/ /\ mgr.node = NoRef
       /\ SetContextMgr("a1", 1)
    \/ \E t \in {"a1", "a2"} : Register(t)
    \/ \E inc \in BOOLEAN, strong \in BOOLEAN : UpdateRef("b1", 0, inc, strong)
    \/ \E t \in {"a1", "a2"} : Read(t, "ok")

SpecRefuse == Init /\ [][NextRefuse]_vars

\* The Thread that ProcessInner::push_work pops for Process p answers
\* Ok(false) to the push of w.
RefusedSoftly(p, w) ==
    /\ procs[p].ready_threads # <<>>
    /\ Thread_push_work(
           [State EXCEPT !.procs[p].ready_threads = Tail(@)],
           Head(procs[p].ready_threads), w).res = "no"

C31_Step ==
    LET r == refs["B"].by_handle[0].ref IN
    (/\ UpdateRef("b1", 0, FALSE, FALSE)
     /\ r.w = 1
     /\ update_refcount_locked(State, 1, FALSE, FALSE, r.wn).push
     /\ RefusedSoftly("A", NItem(1)))
        => InSeq(NItem(1), procs'["A"].work)

\* C31: when a Process-level push pops a ready Thread and the push to that
\* Thread fails softly, the work item is on the Process work queue afterwards.
C31_FallsBack == [][C31_Step]_vars

\* ------------------------------------------------------------- C32
\* The files of the two Processes are flushed and released while the
\* workqueue runs their work items; A may be the manager.
NextDeferred ==
    \/ /\ mgr.node = NoRef
       /\ SetContextMgr("a1", 1)
    \/ \E p \in Procs : FileFlush(p)
    \/ \E p \in Procs : FileRelease(p)
    \/ \E p \in Procs : RunDeferredBegin(p)
    \/ \E p \in Procs : RunDeferredSample(p)
    \/ \E p \in Procs : DeferredFlush(p)
    \/ \E p \in Procs : DeferredRelease(p)
    \/ \E p \in Procs : ReleaseRest(p)
    \/ \E p \in Procs : RunDeferredEnd(p)

\* A step of the workqueue for the work item of Process p, up to the start of
\* deferred_release.
RunStep(p) ==
    \/ RunDeferredBegin(p)
    \/ RunDeferredSample(p)
    \/ DeferredFlush(p)
    \/ DeferredRelease(p)
    \/ RunDeferredEnd(p)

\* The workqueue runs a pending work item, and a run goes on; nothing is
\* assumed of the rest of deferred_release, after which no run is needed.
FairDeferred == \A p \in Procs : WF_vars(RunStep(p))

SpecDeferred == Init /\ [][NextDeferred]_vars /\ FairDeferred

\* flush and release or their bit in and enqueue iff defer_work was zero;
\* run_deferred takes all of defer_work and leaves it zero.
C32_Step ==
    \A p \in Procs :
        /\ FileFlush(p) =>
               /\ procs'[p].defer_work =
                      procs[p].defer_work \cup {PROC_DEFER_FLUSH}
               /\ procs'[p].sched = (procs[p].defer_work = {})
               /\ procs'[p].pending =
                      (procs[p].pending \/ procs[p].defer_work = {})
        /\ FileRelease(p) =>
               /\ procs'[p].defer_work =
                      procs[p].defer_work \cup {PROC_DEFER_RELEASE}
               /\ procs'[p].sched = (procs[p].defer_work = {})
               /\ procs'[p].pending =
                      (procs[p].pending \/ procs[p].defer_work = {})
        /\ RunDeferredSample(p) =>
               /\ procs'[p].defer = procs[p].defer_work
               /\ procs'[p].defer_work = {}

\* C32: flush and release or their bit into defer_work and enqueue the work
\* item if and only if defer_work was zero; run_deferred reads and zeroes
\* defer_work in one critical section; so every flush and every release that
\* was asked for is executed by some run, and the release exactly once: time
\* and again no flush is due, and once release was called deferred_release
\* has been started once, never more.
C32_Deferred ==
    /\ [][C32_Step]_vars
    /\ [](\A p \in Procs : procs[p].released <= 1)
    /\ \A p \in Procs : []<>(~procs[p].flush_due)
    /\ \A p \in Procs : []<>(procs[p].closed => procs[p].released = 1)

\* C32 witness: a release that found defer_work set by a flush, and so did
\* not enqueue, was executed.
C32_Witness ==
    \E p \in Procs :
        /\ procs[p].closed
        /\ ~procs[p].sched
        /\ procs[p].released = 1
        /\ procs[p].rel = "released"
        /\ ~procs[p].flush_due

\* ------------------------------------------------------------- C33
\* B sends its Node to the manager A in a oneway call, which makes handle 1
\* of A; A sends oneway calls to that handle, and both read.
NextUsed ==
    \/ /\ mgr.node = NoRef
       /\ SetContextMgr("a1", 1)
    \/ /\ refs["A"].by_handle[1] = NoInfo
       /\ FreeIds(State) # {}
       /\ Oneway("b1", 0, FALSE, 2)
    \/ /\ FreeIds(State) # {}
       /\ Oneway("a1", 1, FALSE, 0)
    \/ \E t \in {"a1", "b1"} : Read(t, "ok")
    \/ \E t \in {"a1", "b1"}, i \in TxnIds : FreeBuffer(t, i)

SpecUsed == Init /\ [][NextUsed]_vars

\* C33: whenever get_transaction_node succeeds for a Node, the Node's
\* strong.has_count is true, so set_used_for_transaction never reports its
\* failure.
C33_NoFailure == \A n \in Nodes : ~nodes[n].failure

\* ------------------------------------------------------------- C34
\* The Threads of the manager A register as ready and read, while B sends
\* oneway calls and reference commands to the manager's Node.
NextReady ==
    \/ /\ mgr.node = NoRef
       /\ SetContextMgr("a1", 1)
    \/ \E t \in {"a1", "a2"} : Register(t)
    \/ \E inc \in BOOLEAN : UpdateRef("b1", 0, inc, FALSE)
    \/ Oneway("b1", 0, FALSE, 0)
    \/ \E t \in {"a1", "a2"} : Read(t, "ok")
    \/ \E i \in TxnIds : FreeBuffer("a1", i)

SpecReady == Init /\ [][NextReady]_vars

\* C34: the ready-thread list and the work queue of a Process are never both
\* non-empty.
C34_NotBoth ==
    \A p \in Procs : procs[p].ready_threads = <<>> \/ procs[p].work = <<>>

\* C34 witness: a oneway call was pushed to a1 when it was ready, and a later
\* item, with no Thread ready, to the queue of the Process.
C34_Witness ==
    /\ \E i \in TxnIds : InSeq(TItem(i), threads["a1"].work)
    /\ procs["A"].work # <<>>
    /\ procs["A"].ready_threads = <<>>

\* C34 witness: a Thread registered as ready once the queue of its Process
\* had been emptied.
C34_WitnessReady ==
    /\ procs["A"].ready_threads # <<>>
    /\ \E i \in TxnIds : txns[i].to = "A" /\ txns[i].st = "delivered"

\* ------------------------------------------------------------- C35
\* A step appends nothing to the work queue of a Process that is marked dead.
C35_Step ==
    \A p \in Procs :
        procs[p].is_dead =>
            \A k \in 1..Len(procs'[p].work) :
                InSeq(procs'[p].work[k], procs[p].work)

\* C35: once a Process is marked dead no work item is appended to its work
\* queue, and once deferred_release has cancelled the queued items the queue
\* is empty for good, whatever is pushed while the release goes on.
C35_DeadQueue ==
    /\ [][C35_Step]_vars
    /\ [](\A p \in Procs : procs[p].rel = "released" => procs[p].work = <<>>)

\* C35 witness: the release of A cancelled a queued transaction of b1, and a
\* call that b1 sent once A was marked dead was refused; A's queue is empty.
C35_Witness ==
    /\ procs["A"].rel = "released"
    /\ procs["A"].work = <<>>
    /\ \E i, k \in TxnIds :
           /\ txns[i].to = "A" /\ txns[i].st = "cancelled"
           /\ txns[k].kind = "call" /\ txns[k].st = "rejected"

\* ------------------------------------------------------------- C36
\* No lock of the events tr is taken while it is held.
RECURSIVE LkNoRelock(_, _)
LkNoRelock(tr, held) ==
    IF tr = <<>> THEN TRUE
    ELSE IF Head(tr).acq
    THEN Head(tr).l \notin held /\ LkNoRelock(Tail(tr), held \cup {Head(tr).l})
    ELSE LkNoRelock(Tail(tr), held \ {Head(tr).l})

\* The oneway transaction that t sends to handle h finds its target, and the
\* owner of the target is marked dead.
ToDeadOwner(t, h) ==
    LET r == get_transaction_node(State, ProcOf(t), h) IN
    r.ok /\ procs[Owner(r.ref.node)].is_dead

C36_Step ==
    \A t \in Threads, h \in Handles :
        (Oneway(t, h, FALSE, 0) /\ ToDeadOwner(t, h)) =>
            /\ txns'[NewId(State)].st = "rejected"
            /\ ~txns'[NewId(State)].buf
            /\ LkNoRelock(LkOneway(State, t, h, FALSE, 0), {})

\* C36: a oneway transaction submitted to a Node whose owner is marked dead
\* is refused and its buffer released, and the submitting Thread takes no
\* lock that it holds: the Transaction is not dropped inside the critical
\* section of the owner's inner lock.
C36_DeadOneway == [][C36_Step]_vars

\* ------------------------------------------------------------- C37
\* B imports the manager's Node as handle 0 and sends its own Node to the
\* manager A, which makes handle 1 of A. A sends oneway calls that carry its
\* Node to handle 1, in two steps, and B is released in between.
NextStale ==
    \/ /\ mgr.node = NoRef
       /\ SetContextMgr("a1", 1)
    \/ /\ ev # Panicked
       /\ refs["B"].by_global_id[1] = -1
       /\ UpdateRef("b1", 0, TRUE, TRUE)
    \/ /\ ev # Panicked
       /\ refs["A"].by_handle[1] = NoInfo
       /\ Oneway("b1", 0, FALSE, 2)
    \/ /\ ev # Panicked
       /\ nodes[1].strong.count <= MaxCount
       /\ OnewayAlloc("a2", 1, 1)
    \/ /\ ev # Panicked
       /\ OnewayTranslate("a2")
    \/ /\ ev # Panicked
       /\ \E t \in {"a1", "b1"} : Read(t, "ok")
    \/ /\ ev # Panicked
       /\ ReleaseMark("B")
    \/ /\ ev # Panicked
       /\ ReleaseRest("B")

SpecStale == Init /\ [][NextStale]_vars

\* C37: the lookup of insert_or_update_handle never finds a Node in
\* by_global_id whose handle has no entry in by_handle, so its unwrap never
\* fails, whenever the import runs with respect to the release of the
\* Process.
C37_UnwrapHolds == ev # Panicked

\* ------------------------------------------------------------- C38
\* A step that is NodeRef::update with inc = false on handle 1 of A while the
\* counter it selects is 0: the NodeRef, the Nodes and the handle table are
\* as before, and no 0 - 1 was computed.
C38_Step ==
    \A strong \in BOOLEAN, o \in {"ok", "panic", "wrap"} :
        LET r == refs["A"].by_handle[1].ref
            c == IF strong THEN r.s ELSE r.w
        IN  (c = 0 /\ NodeRefUpdate("a1", 1, FALSE, strong, o)) =>
                /\ refs' = refs
                /\ nodes' = nodes
                /\ ev' # Underflowed

\* C38: a decrement request to NodeRef::update for a counter, strong or weak,
\* whose value is 0 changes none of the four counters of the NodeRef and none
\* of the Node's counts, so strong_count and weak_count never underflow.
C38_ZeroStays == [][C38_Step]_vars

\* The strong half of C38: a strong decrement of a strong count of 0.
C38_StrongStep ==
    \A o \in {"ok", "panic", "wrap"} :
        (/\ refs["A"].by_handle[1].ref.s = 0
         /\ NodeRefUpdate("a1", 1, FALSE, TRUE, o)) =>
            refs' = refs /\ nodes' = nodes /\ ev' # Underflowed
C38_StrongZeroStays == [][C38_StrongStep]_vars

\* ------------------------------------------------------------- C39
\* A is the manager; a oneway call of B gives A handle 1 for B's Node 2. The
\* Threads of A request and clear the death notification of handle 1, a2
\* registers as ready, a1 drops the handle, and B is released in two steps:
\* the mark and the rest. No Thread of A reads, so that what was pushed stays
\* where it was pushed.
NextRace ==
    \/ /\ mgr.node = NoRef
       /\ SetContextMgr("a1", 1)
    \/ /\ FreeIds(State) = TxnIds
       /\ Oneway("b1", 0, FALSE, 2)
    \/ \E t \in {"a1", "a2"}, c \in Cookies : RequestDeath(t, 1, c)
    \/ \E c \in Cookies : ClearDeath("a1", 1, c)
    \/ Register("a2")
    \/ /\ NextWork("a1").k # "D"
       /\ Read("a1", "ok")
    \/ \E strong \in BOOLEAN : UpdateRef("a1", 1, FALSE, strong)
    \/ ReleaseMark("B")
    \/ ReleaseRest("B")

SpecRace == Init /\ [][NextRace]_vars

\* How many times s holds x.
Occurrences(x, s) == Cardinality({k \in 1..Len(s) : s[k] = x})

\* How many times NodeDeath d is on the work list of its subscriber Process
\* or of a Thread of it.
Pushed(d) ==
    LET p == deaths[d].process IN
    Occurrences(DItem(d), procs[p].work)
        + Cardinality(UNION {{<<t, k>> : k \in {j \in 1..Len(threads[t].work) :
                                                 threads[t].work[j] = DItem(d)}} :
                             t \in ThreadsOf(p)})

\* How many times NodeDeath d is on the death list of its Node.
Listed(d) == Occurrences(d, nodes[deaths[d].node].death_list)

\* NodeDeath d is a subscription made by request_death, not cleared, of a
\* live subscriber.
Subscribed(d) ==
    /\ deaths[d].process # ""
    /\ ~deaths[d].cleared
    /\ ~procs[deaths[d].process].is_dead

\* C39: a NodeDeath made by request_death and not cleared is either on the
\* death list of its Node, while the owner is not released, or was pushed to
\* its live subscriber exactly once, by the drain of deferred_release or by
\* request_death itself when it found the owner dead: never neither, never
\* both, never twice; and once the owner is released it was pushed.
C39_ExactlyOnce ==
    \A d \in DeathIds :
        Subscribed(d) =>
            /\ Pushed(d) + Listed(d) = 1
            /\ procs[Owner(deaths[d].node)].rel = "open" => Pushed(d) = 0
            /\ procs[Owner(deaths[d].node)].rel = "released" => Pushed(d) = 1

\* C39 witness: request_death ran after the owner was marked dead and before
\* the rest of its release, and pushed the NodeDeath itself.
C39_Witness ==
    \E d \in DeathIds :
        /\ Subscribed(d)
        /\ procs[Owner(deaths[d].node)].rel = "dead"
        /\ ~deaths[d].dead
        /\ Pushed(d) = 1

\* C39 witness: the drain of deferred_release pushed the NodeDeath, to the
\* ready Thread a2.
C39_WitnessDrain ==
    \E d \in DeathIds :
        /\ Subscribed(d)
        /\ procs[Owner(deaths[d].node)].rel = "released"
        /\ deaths[d].dead
        /\ Occurrences(DItem(d), threads["a2"].work) = 1

\* ------------------------------------------------------------- C40
\* The Threads of A call get_node for A's pointer with either cookie, each
\* call in two steps, and drop what it returned; a1 and a2 read, which makes
\* Node::do_work remove a Node nobody refers to from the table.
NextNode ==
    \/ \E t \in ThreadsOf("A"), c \in Cookies, strong \in BOOLEAN :
           GetNodeBegin(t, 1, c, strong)
    \/ \E t \in ThreadsOf("A") : GetNodeEnd(t)
    \/ \E t \in ThreadsOf("A") : GetNodeDrop(t)
    \/ \E t \in ThreadsOf("A") : Read(t, "ok")

SpecNode == Init /\ [][NextNode]_vars

\* What a step in which get_node of Thread t for pointer 1 returns does. If
\* the table holds a Node with another cookie the result is EINVAL and the
\* table, the Nodes and the work lists are as before; otherwise the result
\* is a NodeRef to the Node of the table, the one found or else the one just
\* inserted, and the count it asked for, strong or weak, of that Node is one
\* more and the other count as before.
C40_Returned(t) ==
    LET g == threads'[t].getn
        hit == 1 \in procs["A"].nodes
        other == hit /\ nodes[1].cookie # g.cookie
        was == IF hit THEN nodes[1] ELSE Node_new
    IN  IF other
        THEN /\ g.res = "EINVAL"
             /\ g.ref = NoRef
             /\ nodes' = nodes
             /\ procs' = procs
             /\ \A u \in Threads : threads'[u].work = threads[u].work
        ELSE /\ g.res = "ok"
             /\ g.ref = NodeRef_new(1, IF g.strong THEN 1 ELSE 0,
                                       IF g.strong THEN 0 ELSE 1)
             /\ 1 \in procs'["A"].nodes
             /\ nodes'[1].cookie = g.cookie
             /\ g.got = nodes'[1].obj
             /\ hit => nodes'[1].obj = nodes[1].obj
             /\ nodes'[1].strong.count
                    = was.strong.count + (IF g.strong THEN 1 ELSE 0)
             /\ nodes'[1].weak.count
                    = was.weak.count + (IF g.strong THEN 0 ELSE 1)

C40_Step ==
    \A t \in ThreadsOf("A") :
        (/\ threads[t].getn.at # "done"
         /\ threads'[t].getn.at = "done") => C40_Returned(t)

\* The NodeRefs that get_node returned and that are still held refer to the
\* Node object that the table holds for the pointer, with their cookie.
C40_SameNode ==
    \A t \in ThreadsOf("A") :
        (threads[t].getn.at = "done" /\ threads[t].getn.res = "ok") =>
            /\ 1 \in procs["A"].nodes
            /\ nodes[1].obj = threads[t].getn.got
            /\ nodes[1].cookie = threads[t].getn.cookie

\* C40: the node table of a Process holds at most one Node per pointer:
\* concurrent calls of get_node with the same pointer and cookie return
\* NodeRefs to the same Node, each adding exactly one count to it, and
\* get_node for a pointer that is in the table with another cookie fails with
\* EINVAL and changes neither the table nor a count.
C40_OneNode == []C40_SameNode /\ [][C40_Step]_vars

\* C40 witness: the first lookups of a1 and of a2 both found no Node, both
\* allocated one, and both calls returned a NodeRef to the one Node that is
\* in the table, which has a count of two.
C40_Witness ==
    /\ \A t \in ThreadsOf("A") :
           /\ threads[t].getn.at = "done"
           /\ threads[t].getn.res = "ok"
           /\ threads[t].getn.missed
           /\ threads[t].getn.got = nodes[1].obj
    /\ nodes[1].strong.count + nodes[1].weak.count = 2

\* C40 witness: a call with the other cookie was refused while a NodeRef to
\* the Node is held.
C40_WitnessEinval ==
    \E t, u \in ThreadsOf("A") :
        /\ threads[t].getn.res = "EINVAL"
        /\ threads[u].getn.res = "ok"
        /\ threads[u].getn.cookie # threads[t].getn.cookie
=============================================================================
